---- MODULE Spec2Model ----
(***************************************************************************)
(* The server-side form validation engine (FormValidator) together with   *)
(* the process-wide ValidatorRegistry it reads.                            *)
(*                                                                         *)
(* Submitted values are a tagged union.  A value is a record               *)
(*   [t |-> kind, je |-> is it a System.Text.Json JsonElement, v |-> ...]  *)
(* with kind one of null, str, num, bool, list, map.  Strings are          *)
(* sequences of one-character strings, lists are sequences of values and   *)
(* maps are functions from a finite set of keys to values.                 *)
(***************************************************************************)
EXTENDS Integers, Sequences, FiniteSets, TLC

VARIABLES
    validators,               \* ValidatorRegistry._validators (.NET)
    asyncValidators,          \* AsyncValidatorRegistry._validators (.NET)
    sharedValidatorMap,       \* the map the Angular ValidatorRegistry instances share
    sharedAsyncValidatorMap,  \* the map the Angular AsyncValidatorRegistry instances share
    serviceValidators,        \* the map of the ValidatorRegistry service instance
    packageAsyncValidators,   \* the map of the validation package's asyncValidatorRegistry
    mutation,                 \* the mutation of _validators a thread is in the middle of
    call,                     \* the operation the caller is in, with its arguments
    result                    \* what the operation returned

vars ==
    <<validators, asyncValidators, sharedValidatorMap, sharedAsyncValidatorMap,
      serviceValidators, packageAsyncValidators, mutation, call, result>>

(* The state outside the synchronous .NET registry and the caller *)
elsewhere ==
    <<asyncValidators, sharedValidatorMap, sharedAsyncValidatorMap, serviceValidators,
      packageAsyncValidators, mutation>>

----------------------------------------------------------------------------
(* Bounds of the model *)

MaxRules == 2
MaxRows == 2
MaxStrLen == 1
MaxBound == 3

----------------------------------------------------------------------------
(* Values *)

Null == [t |-> "null", je |-> FALSE, v |-> 0]
Str(s) == [t |-> "str", je |-> FALSE, v |-> s]
Num(n) == [t |-> "num", je |-> FALSE, v |-> n]
Bool(b) == [t |-> "bool", je |-> FALSE, v |-> b]
List(l) == [t |-> "list", je |-> FALSE, v |-> l]
Map(m) == [t |-> "map", je |-> FALSE, v |-> m]

EmptyMap == [k \in {} |-> Null]

(* The JsonElement a native value tree decodes from: every node is a       *)
(* JsonElement.                                                            *)
RECURSIVE Json(_)
Json(x) ==
    CASE x.t = "list" -> [t |-> "list", je |-> TRUE, v |-> [i \in DOMAIN x.v |-> Json(x.v[i])]]
      [] x.t = "map" -> [t |-> "map", je |-> TRUE, v |-> [k \in DOMAIN x.v |-> Json(x.v[k])]]
      [] OTHER -> [x EXCEPT !.je = TRUE]

RECURSIVE JsonElementToObject(_)
JsonElementToObject(element) ==
    CASE element.t = "map" ->
            Map([k \in DOMAIN element.v |-> JsonElementToObject(element.v[k])])
      [] element.t = "list" ->
            List([i \in DOMAIN element.v |-> JsonElementToObject(element.v[i])])
      [] element.t = "str" -> Str(element.v)
      [] element.t = "num" -> Num(element.v)
      [] element.t = "bool" -> Bool(element.v)
      [] OTHER -> Null

(* Dictionary.TryGetValue: the out value is null when the key is missing *)
TryGetValue(dict, key) == IF key \in DOMAIN dict THEN dict[key] ELSE Null

----------------------------------------------------------------------------
(* Characters and strings *)

Letters ==
    {"a", "b", "c", "d", "e", "f", "g", "h", "i", "j", "k", "l", "m", "n",
     "o", "p", "q", "r", "s", "t", "u", "v", "w", "x", "y", "z",
     "A", "B", "C", "D", "E", "F", "G", "H", "I", "J", "K", "L", "M", "N",
     "O", "P", "Q", "R", "S", "T", "U", "V", "W", "X", "Y", "Z"}
Digits == {"0", "1", "2", "3", "4", "5", "6", "7", "8", "9"}

DigitVal(c) ==
    CASE c = "0" -> 0 [] c = "1" -> 1 [] c = "2" -> 2 [] c = "3" -> 3
      [] c = "4" -> 4 [] c = "5" -> 5 [] c = "6" -> 6 [] c = "7" -> 7
      [] c = "8" -> 8 [] c = "9" -> 9

DigitChar(d) ==
    CASE d = 0 -> "0" [] d = 1 -> "1" [] d = 2 -> "2" [] d = 3 -> "3"
      [] d = 4 -> "4" [] d = 5 -> "5" [] d = 6 -> "6" [] d = 7 -> "7"
      [] d = 8 -> "8" [] d = 9 -> "9"

IsNullOrWhiteSpace(s) == \A i \in 1..Len(s) : s[i] = " "

RECURSIVE TrimStart(_)
TrimStart(s) == IF s # <<>> /\ Head(s) = " " THEN TrimStart(Tail(s)) ELSE s

RECURSIVE TrimEnd(_)
TrimEnd(s) ==
    IF s # <<>> /\ s[Len(s)] = " " THEN TrimEnd(SubSeq(s, 1, Len(s) - 1)) ELSE s

Trim(s) == TrimEnd(TrimStart(s))

RemoveSpaces(s) == SelectSeq(s, LAMBDA c : c # " ")

RECURSIVE ParseDigits(_)
ParseDigits(s) ==
    IF s = <<>> THEN 0
    ELSE 10 * ParseDigits(SubSeq(s, 1, Len(s) - 1)) + DigitVal(s[Len(s)])

(* Int32.ToString / Int64.ToString *)
RECURSIVE NatToString(_)
NatToString(n) ==
    IF n < 10 THEN <<DigitChar(n)>>
    ELSE NatToString(n \div 10) \o <<DigitChar(n % 10)>>

IntToString(n) == IF n < 0 THEN <<"-">> \o NatToString(0 - n) ELSE NatToString(n)

(* int.TryParse / double.TryParse on the strings of the model: optional    *)
(* surrounding white space, an optional sign, then digits.                 *)
IsNumeric(s) ==
    LET t == Trim(s)
        u == IF t # <<>> /\ Head(t) \in {"-", "+"} THEN Tail(t) ELSE t
    IN  u # <<>> /\ \A i \in 1..Len(u) : u[i] \in Digits

ParseNumber(s) ==
    LET t == Trim(s)
    IN  IF Head(t) = "-" THEN 0 - ParseDigits(Tail(t))
        ELSE IF Head(t) = "+" THEN ParseDigits(Tail(t))
        ELSE ParseDigits(t)

----------------------------------------------------------------------------
(* Coercions *)

(* Object.ToString() of a List and of a Dictionary: the type name, its     *)
(* backquote written as an apostrophe.                                     *)
ListTypeName ==
    <<"S", "y", "s", "t", "e", "m", ".", "C", "o", "l", "l", "e", "c", "t",
    "i", "o", "n", "s", ".", "G", "e", "n", "e", "r", "i", "c", ".", "L",
    "i", "s", "t", "'", "1", "[", "S", "y", "s", "t", "e", "m", ".", "O",
    "b", "j", "e", "c", "t", "]">>

DictionaryTypeName ==
    <<"S", "y", "s", "t", "e", "m", ".", "C", "o", "l", "l", "e", "c", "t",
    "i", "o", "n", "s", ".", "G", "e", "n", "e", "r", "i", "c", ".", "D",
    "i", "c", "t", "i", "o", "n", "a", "r", "y", "'", "2", "[", "S", "y",
    "s", "t", "e", "m", ".", "S", "t", "r", "i", "n", "g", ",", "S", "y",
    "s", "t", "e", "m", ".", "O", "b", "j", "e", "c", "t", "]">>

BoolToString(b) == IF b THEN <<"T", "r", "u", "e">> ELSE <<"F", "a", "l", "s", "e">>

(* JsonElement.ToString() of an array or an object is its raw JSON text;   *)
(* the text of each member is elided to one "~".                           *)
RawText(je) ==
    LET body == [i \in 1..Cardinality(DOMAIN je.v) |-> "~"]
    IN  IF je.t = "list" THEN <<"[">> \o body \o <<"]">>
        ELSE <<"{">> \o body \o <<"}">>

NoString == [isNull |-> TRUE, s |-> <<>>]
SomeString(s) == [isNull |-> FALSE, s |-> s]

GetStringValue(value) ==
    CASE value.t = "str" -> SomeString(value.v)
      [] value.je /\ value.t = "num" -> SomeString(IntToString(value.v))
      [] value.je /\ value.t = "bool" -> SomeString(BoolToString(value.v))
      [] value.je /\ value.t = "null" -> SomeString(<<>>)
      [] value.je -> SomeString(RawText(value))
      [] value.t = "null" -> NoString
      [] value.t = "num" -> SomeString(IntToString(value.v))
      [] value.t = "bool" -> SomeString(BoolToString(value.v))
      [] value.t = "list" -> SomeString(ListTypeName)
      [] OTHER -> SomeString(DictionaryTypeName)

NoNumber == [isNull |-> TRUE, n |-> 0]
SomeNumber(n) == [isNull |-> FALSE, n |-> n]

GetIntValue(value) ==
    CASE value.t = "num" -> SomeNumber(value.v)
      [] value.t = "str" /\ IsNumeric(value.v) -> SomeNumber(ParseNumber(value.v))
      [] OTHER -> NoNumber

GetDoubleValue(value) ==
    CASE value.t = "num" -> SomeNumber(value.v)
      [] value.t = "str" /\ IsNumeric(value.v) -> SomeNumber(ParseNumber(value.v))
      [] OTHER -> NoNumber

NoList == [isNull |-> TRUE, items |-> <<>>]
SomeList(l) == [isNull |-> FALSE, items |-> l]

(* A native Dictionary is an IEnumerable of its key/value pairs, none of   *)
(* which is a Dictionary: each pair is listed as a boolean stand-in.       *)
GetArrayValue(value) ==
    CASE ~value.je /\ value.t = "list" -> SomeList(value.v)
      [] value.je /\ value.t = "list" ->
            SomeList([i \in DOMAIN value.v |-> JsonElementToObject(value.v[i])])
      [] ~value.je /\ value.t = "map" ->
            SomeList([i \in 1..Cardinality(DOMAIN value.v) |-> Bool(TRUE)])
      [] OTHER -> NoList

NoDictionary == [isNull |-> TRUE, dict |-> EmptyMap]
SomeDictionary(d) == [isNull |-> FALSE, dict |-> d]

GetDictionaryValue(value) ==
    CASE ~value.je /\ value.t = "map" -> SomeDictionary(value.v)
      [] value.je /\ value.t = "map" ->
            SomeDictionary([k \in DOMAIN value.v |-> JsonElementToObject(value.v[k])])
      [] OTHER -> NoDictionary

(* rows[rowIndex] as Dictionary<string, object?> *)
AsDictionary(row) ==
    IF ~row.je /\ row.t = "map" THEN SomeDictionary(row.v) ELSE NoDictionary

----------------------------------------------------------------------------
(* Emptiness and the built-in rule predicates *)

(* IsEmpty with string.IsNullOrEmpty in place of string.IsNullOrWhiteSpace *)
IsEmpty_NullOrEmpty(value) ==
    IF value = Null THEN TRUE
    ELSE CASE value.t = "str" -> Len(value.v) = 0
           [] value.je /\ value.t = "null" -> TRUE
           [] value.t = "list" -> Len(value.v) = 0
           [] OTHER -> FALSE

IsEmpty(value) ==
    IF value = Null THEN TRUE
    ELSE CASE ~value.je /\ value.t = "str" -> IsNullOrWhiteSpace(value.v)
           [] value.je /\ value.t = "null" -> TRUE
           [] value.je /\ value.t = "str" -> IsNullOrWhiteSpace(value.v)
           [] value.je /\ value.t = "list" -> Len(value.v) = 0
           [] ~value.je /\ value.t = "list" -> Len(value.v) = 0
           [] OTHER -> FALSE

EmailLocalChars == Letters \cup Digits \cup {".", "_", "%", "+", "-"}
EmailDomainChars == Letters \cup Digits \cup {".", "-"}

(* ^[a-zA-Z0-9._%+-]+@[a-zA-Z0-9.-]+\.[a-zA-Z]{2,}$ *)
EmailRegexIsMatch(s) ==
    \E at \in 1..Len(s) : \E dot \in 1..Len(s) :
        /\ s[at] = "@"
        /\ s[dot] = "."
        /\ at > 1
        /\ dot > at + 1
        /\ Len(s) - dot >= 2
        /\ \A i \in 1..(at - 1) : s[i] \in EmailLocalChars
        /\ \A i \in (at + 1)..(dot - 1) : s[i] \in EmailDomainChars
        /\ \A i \in (dot + 1)..Len(s) : s[i] \in Letters

IsValidEmail(value) ==
    LET str == GetStringValue(value)
    IN  ~str.isNull /\ EmailRegexIsMatch(str.s)

(* HasMinLength asking for more characters than the bound *)
HasMinLength_Strict(value, minValue) ==
    LET str == GetStringValue(value)
        min == GetIntValue(minValue)
    IN  IF str.isNull THEN TRUE
        ELSE min.isNull \/ Len(str.s) > min.n

HasMinLength(value, minValue) ==
    LET str == GetStringValue(value)
        min == GetIntValue(minValue)
    IN  IF str.isNull THEN TRUE
        ELSE min.isNull \/ Len(str.s) >= min.n

HasMaxLength(value, maxValue) ==
    LET str == GetStringValue(value)
        max == GetIntValue(maxValue)
    IN  IF str.isNull THEN TRUE
        ELSE max.isNull \/ Len(str.s) <= max.n

IsAtLeast(value, minValue) ==
    LET num == GetDoubleValue(value)
        min == GetDoubleValue(minValue)
    IN  num.isNull \/ min.isNull \/ num.n >= min.n

(* IsAtMost rejecting a value equal to the bound *)
IsAtMost_Strict(value, maxValue) ==
    LET num == GetDoubleValue(value)
        max == GetDoubleValue(maxValue)
    IN  num.isNull \/ max.isNull \/ num.n < max.n

IsAtMost(value, maxValue) ==
    LET num == GetDoubleValue(value)
        max == GetDoubleValue(maxValue)
    IN  num.isNull \/ max.isNull \/ num.n <= max.n

(* The pattern sources of the model: literal characters, an optional       *)
(* leading ^ and an optional trailing $.  A source holding an unclosed     *)
(* "(" does not compile.                                                   *)
RegexCompiles(pattern) == \A i \in 1..Len(pattern) : pattern[i] # "("

RegexIsMatch(str, pattern) ==
    LET anchoredStart == pattern # <<>> /\ Head(pattern) = "^"
        p1 == IF anchoredStart THEN Tail(pattern) ELSE pattern
        anchoredEnd == p1 # <<>> /\ p1[Len(p1)] = "$"
        lit == IF anchoredEnd THEN SubSeq(p1, 1, Len(p1) - 1) ELSE p1
    IN  \E start \in 1..(Len(str) + 1) :
            /\ start + Len(lit) - 1 <= Len(str)
            /\ SubSeq(str, start, start + Len(lit) - 1) = lit
            /\ anchoredStart => start = 1
            /\ anchoredEnd => start + Len(lit) - 1 = Len(str)

(* MatchesPattern rejecting the value when the pattern is missing or does  *)
(* not compile                                                             *)
MatchesPattern_FailClosed(value, pattern) ==
    LET str == GetStringValue(value)
        patternStr == GetStringValue(pattern)
    IN  IF str.isNull THEN TRUE
        ELSE IF patternStr.isNull THEN FALSE
        ELSE IF RegexCompiles(patternStr.s) THEN RegexIsMatch(str.s, patternStr.s)
        ELSE FALSE

MatchesPattern(value, pattern) ==
    LET str == GetStringValue(value)
        patternStr == GetStringValue(pattern)
    IN  IF str.isNull \/ patternStr.isNull THEN TRUE
        ELSE IF RegexCompiles(patternStr.s) THEN RegexIsMatch(str.s, patternStr.s)
        ELSE TRUE

----------------------------------------------------------------------------
(* Configuration records.  A null list or sub-configuration is a record    *)
(* whose isNull is TRUE.                                                   *)

NoCondition == [isNull |-> TRUE, field |-> "", operator |-> "Equals", value |-> Null]
Condition(f, op, v) == [isNull |-> FALSE, field |-> f, operator |-> op, value |-> v]

Rule(type, value, message) ==
    [type |-> type, value |-> value, message |-> message,
     customValidatorName |-> "", condition |-> NoCondition]

CustomRule(name, message) ==
    [type |-> "Custom", value |-> Null, message |-> message,
     customValidatorName |-> name, condition |-> NoCondition]

When(rule, condition) == [rule EXCEPT !.condition = condition]

NoValidations == [isNull |-> TRUE, list |-> <<>>]
Validations(rules) == [isNull |-> FALSE, list |-> rules]

Column(name, validations, computed) ==
    [name |-> name, validations |-> validations, computed |-> computed]

NoTableConfig == [isNull |-> TRUE, columns |-> <<>>]
TableConfig(columns) == [isNull |-> FALSE, columns |-> columns]

NoDataGridConfig == [isNull |-> TRUE, columns |-> <<>>, rowLabels |-> <<>>]
DataGridConfig(columns, rowLabels) ==
    [isNull |-> FALSE, columns |-> columns, rowLabels |-> rowLabels]

(* toDateOptional is "null", "true" or "false" *)
NoDateRangeConfig == [isNull |-> TRUE, toDateOptional |-> "null"]
DateRangeConfig(toDateOptional) == [isNull |-> FALSE, toDateOptional |-> toDateOptional]

FormFieldConfig(name, type, validations) ==
    [name |-> name, type |-> type, archived |-> FALSE, validations |-> validations,
     tableConfig |-> NoTableConfig, dataGridConfig |-> NoDataGridConfig,
     dateRangeConfig |-> NoDateRangeConfig]

(* rule.Type.ToString().ToLowerInvariant() *)
(* The name of the rule type as the enumeration spells it *)
ToLowerInvariant_EnumName(type) == type

ToLowerInvariant(type) ==
    CASE type = "Required" -> "required"
      [] type = "Email" -> "email"
      [] type = "MinLength" -> "minlength"
      [] type = "MaxLength" -> "maxlength"
      [] type = "Min" -> "min"
      [] type = "Max" -> "max"
      [] type = "Pattern" -> "pattern"
      [] type = "Custom" -> "custom"

FieldValidationError(field, message, rule) ==
    [field |-> field, message |-> message, rule |-> rule]

(* Success leaving Valid at the default of bool *)
Success_ValidUnset == [valid |-> FALSE, errors |-> <<>>]

Success == [valid |-> TRUE, errors |-> <<>>]
Failure(errors) == [valid |-> FALSE, errors |-> errors]

(* Error paths: a path is the sequence of the pieces the interpolated      *)
(* string is made of.                                                      *)
FieldPath(name) == <<name>>
TableCellPath(name, rowIndex, column) ==
    <<name, "[", ToString(rowIndex), "]", ".", column>>
DataGridCellPath(name, rowId, column) == <<name, ".", rowId, ".", column>>

----------------------------------------------------------------------------
(* Custom validators.  The functions an application registers are the two  *)
(* of the package documentation.                                           *)

(* ^(\+61|0)[2-478]\d{8}$ *)
AustralianPhoneRegexIsMatch(s) ==
    \E prefix \in {<<"+", "6", "1">>, <<"0">>} :
        /\ Len(s) = Len(prefix) + 9
        /\ SubSeq(s, 1, Len(prefix)) = prefix
        /\ s[Len(prefix) + 1] \in {"2", "3", "4", "7", "8"}
        /\ \A i \in (Len(prefix) + 2)..Len(s) : s[i] \in Digits

australianPhoneNumber(value) ==
    IF value = Null THEN TRUE
    ELSE AustralianPhoneRegexIsMatch(RemoveSpaces(GetStringValue(value).s))

CustomValidatorFn(fn, value, parameters, fieldConfig, formData) ==
    CASE fn = "australianPhoneNumber" -> australianPhoneNumber(value)
      [] fn = "validator1" -> TRUE

(* ValidatorRegistry.Instance.Get *)
Get(name) ==
    IF name \in DOMAIN validators
    THEN [isNull |-> FALSE, fn |-> validators[name]]
    ELSE [isNull |-> TRUE, fn |-> ""]

(* ValidateCustom failing closed on a name that is not registered *)
ValidateCustom_FailClosed(value, rule, fieldConfig, formData) ==
    IF rule.customValidatorName = "" THEN TRUE
    ELSE LET validator == Get(rule.customValidatorName)
         IN  IF validator.isNull THEN FALSE
             ELSE CustomValidatorFn(validator.fn, value, Null, fieldConfig, formData)

ValidateCustom(value, rule, fieldConfig, formData) ==
    IF rule.customValidatorName = "" THEN TRUE
    ELSE LET validator == Get(rule.customValidatorName)
         IN  IF validator.isNull THEN TRUE
             ELSE CustomValidatorFn(validator.fn, value, Null, fieldConfig, formData)

(* ValidateRule without the IsEmpty(value) || guards *)
ValidateRule_NoEmptyGuard(value, rule, fieldConfig, formData) ==
    CASE rule.type = "Required" -> ~IsEmpty(value)
      [] rule.type = "Email" -> IsValidEmail(value)
      [] rule.type = "MinLength" -> HasMinLength(value, rule.value)
      [] rule.type = "MaxLength" -> HasMaxLength(value, rule.value)
      [] rule.type = "Min" -> IsAtLeast(value, rule.value)
      [] rule.type = "Max" -> IsAtMost(value, rule.value)
      [] rule.type = "Pattern" -> MatchesPattern(value, rule.value)
      [] rule.type = "Custom" -> ValidateCustom(value, rule, fieldConfig, formData)
      [] OTHER -> TRUE

ValidateRule(value, rule, fieldConfig, formData) ==
    CASE rule.type = "Required" -> ~IsEmpty(value)
      [] rule.type = "Email" -> IsEmpty(value) \/ IsValidEmail(value)
      [] rule.type = "MinLength" -> IsEmpty(value) \/ HasMinLength(value, rule.value)
      [] rule.type = "MaxLength" -> IsEmpty(value) \/ HasMaxLength(value, rule.value)
      [] rule.type = "Min" -> IsEmpty(value) \/ IsAtLeast(value, rule.value)
      [] rule.type = "Max" -> IsEmpty(value) \/ IsAtMost(value, rule.value)
      [] rule.type = "Pattern" -> IsEmpty(value) \/ MatchesPattern(value, rule.value)
      [] rule.type = "Custom" -> ValidateCustom(value, rule, fieldConfig, formData)
      [] OTHER -> TRUE

(* foreach (var rule in rules) if (!ValidateRule(...)) errors.Add(...) *)
RuleErrors(rules, value, fieldConfig, formData, path) ==
    LET RECURSIVE from(_)
        from(i) ==
            IF i > Len(rules) THEN <<>>
            ELSE (IF ~ValidateRule(value, rules[i], fieldConfig, formData)
                  THEN <<FieldValidationError(path, rules[i].message,
                                              ToLowerInvariant(rules[i].type))>>
                  ELSE <<>>) \o from(i + 1)
    IN  from(1)

ValidateField(field, value, formData) ==
    IF field.validations.isNull \/ Len(field.validations.list) = 0 THEN <<>>
    ELSE RuleErrors(field.validations.list, value, field, formData, FieldPath(field.name))

----------------------------------------------------------------------------
(* Composite fields *)

(* new FormFieldConfig { Name = column.Name } *)
TempField(column) == FormFieldConfig(column.name, "Text", NoValidations)

(* foreach (var column in config.Columns) of ValidateTableField *)
TableColumnErrors(columns, row, formData, fieldName, rowIndex) ==
    LET RECURSIVE from(_)
        from(c) ==
            IF c > Len(columns) THEN <<>>
            ELSE LET column == columns[c]
                     cellValue == TryGetValue(row, column.name)
                     cellPath == TableCellPath(fieldName, rowIndex, column.name)
                 IN  (IF column.validations.isNull THEN <<>>
                      ELSE RuleErrors(column.validations.list, cellValue,
                                      TempField(column), formData, cellPath))
                     \o from(c + 1)
    IN  from(1)

(* foreach (var column in config.Columns) of ValidateDataGridField *)
DataGridColumnErrors(columns, rowData, formData, fieldName, rowId) ==
    LET RECURSIVE from(_)
        from(c) ==
            IF c > Len(columns) THEN <<>>
            ELSE LET column == columns[c]
                     cellValue == TryGetValue(rowData, column.name)
                     cellPath == DataGridCellPath(fieldName, rowId, column.name)
                 IN  (IF column.computed THEN <<>>
                      ELSE IF column.validations.isNull THEN <<>>
                      ELSE RuleErrors(column.validations.list, cellValue,
                                      TempField(column), formData, cellPath))
                     \o from(c + 1)
    IN  from(1)

(* ValidateTableField without the skip of rows that are empty *)
ValidateTableField_NoRowSkip(field, value, formData) ==
    LET config == field.tableConfig
        rows == GetArrayValue(value)
        RECURSIVE from(_)
        from(i) ==
            IF i > Len(rows.items) THEN <<>>
            ELSE LET row == AsDictionary(rows.items[i])
                 IN  (IF row.isNull THEN <<>>
                      ELSE TableColumnErrors(config.columns, row.dict, formData,
                                             field.name, i - 1))
                     \o from(i + 1)
    IN  IF config.isNull THEN <<>>
        ELSE IF rows.isNull THEN <<>>
        ELSE from(1)

ValidateTableField(field, value, formData) ==
    LET config == field.tableConfig
        rows == GetArrayValue(value)
        RECURSIVE from(_)
        from(i) ==
            IF i > Len(rows.items) THEN <<>>
            ELSE LET row == AsDictionary(rows.items[i])
                     isEmptyRow ==
                         \A c \in 1..Len(config.columns) :
                             IsEmpty(TryGetValue(row.dict, config.columns[c].name))
                 IN  (IF row.isNull \/ isEmptyRow THEN <<>>
                      ELSE TableColumnErrors(config.columns, row.dict, formData,
                                             field.name, i - 1))
                     \o from(i + 1)
    IN  IF config.isNull THEN <<>>
        ELSE IF rows.isNull THEN <<>>
        ELSE from(1)

ValidateDataGridField(field, value, formData) ==
    LET config == field.dataGridConfig
        gridData == GetDictionaryValue(value)
        RECURSIVE from(_)
        from(r) ==
            IF r > Len(config.rowLabels) THEN <<>>
            ELSE LET rowLabel == config.rowLabels[r]
                     rowData == GetDictionaryValue(TryGetValue(gridData.dict, rowLabel.id))
                 IN  (IF rowData.isNull THEN <<>>
                      ELSE DataGridColumnErrors(config.columns, rowData.dict, formData,
                                                field.name, rowLabel.id))
                     \o from(r + 1)
    IN  IF config.isNull THEN <<>>
        ELSE IF gridData.isNull THEN <<>>
        ELSE from(1)

HasRequired(rules) == \E i \in 1..Len(rules) : rules[i].type = "Required"

(* field.Validations.FirstOrDefault(v => v.Type == Required) *)
FirstRequired(rules) ==
    rules[CHOOSE i \in 1..Len(rules) :
            /\ rules[i].type = "Required"
            /\ \A j \in 1..(i - 1) : rules[j].type # "Required"]

(* ValidatePhoneField reporting an empty number without asking whether a   *)
(* required rule is configured                                             *)
ValidatePhoneField_RequiredAlways(field, value, formData) ==
    LET rules == field.validations.list
        phoneData == GetDictionaryValue(value)
        hasNumber == ~phoneData.isNull /\ "number" \in DOMAIN phoneData.dict
        phoneNumber == TryGetValue(phoneData.dict, "number")
        isPhoneEmpty == phoneData.isNull \/ (~hasNumber \/ IsEmpty(phoneNumber))
        required ==
            IF isPhoneEmpty
            THEN <<FieldValidationError(FieldPath(field.name),
                                        IF HasRequired(rules) THEN FirstRequired(rules).message
                                        ELSE "This field is required",
                                        "required")>>
            ELSE <<>>
        others ==
            IF hasNumber /\ ~IsEmpty(phoneNumber)
            THEN RuleErrors(SelectSeq(rules, LAMBDA r : r.type # "Required"),
                            phoneNumber, field, formData, FieldPath(field.name))
            ELSE <<>>
    IN  IF field.validations.isNull THEN <<>>
        ELSE required \o others

(* ValidatePhoneField handing the composite, not its number, to the rules *)
ValidatePhoneField_OnComposite(field, value, formData) ==
    LET rules == field.validations.list
        phoneData == GetDictionaryValue(value)
        hasNumber == ~phoneData.isNull /\ "number" \in DOMAIN phoneData.dict
        phoneNumber == TryGetValue(phoneData.dict, "number")
        isPhoneEmpty == phoneData.isNull \/ (~hasNumber \/ IsEmpty(phoneNumber))
        required ==
            IF HasRequired(rules) /\ isPhoneEmpty
            THEN <<FieldValidationError(FieldPath(field.name),
                                        FirstRequired(rules).message, "required")>>
            ELSE <<>>
        others ==
            IF hasNumber /\ ~IsEmpty(phoneNumber)
            THEN RuleErrors(SelectSeq(rules, LAMBDA r : r.type # "Required"),
                            value, field, formData, FieldPath(field.name))
            ELSE <<>>
    IN  IF field.validations.isNull THEN <<>>
        ELSE required \o others

(* ValidatePhoneField running the field's rules as a plain field would *)
ValidatePhoneField_AsPlainField(field, value, formData) ==
    IF field.validations.isNull THEN <<>>
    ELSE RuleErrors(field.validations.list, value, field, formData, FieldPath(field.name))

ValidatePhoneField(field, value, formData) ==
    LET rules == field.validations.list
        phoneData == GetDictionaryValue(value)
        hasNumber == ~phoneData.isNull /\ "number" \in DOMAIN phoneData.dict
        phoneNumber == TryGetValue(phoneData.dict, "number")
        isPhoneEmpty == phoneData.isNull \/ (~hasNumber \/ IsEmpty(phoneNumber))
        required ==
            IF HasRequired(rules) /\ isPhoneEmpty
            THEN <<FieldValidationError(FieldPath(field.name),
                                        FirstRequired(rules).message, "required")>>
            ELSE <<>>
        others ==
            IF hasNumber /\ ~IsEmpty(phoneNumber)
            THEN RuleErrors(SelectSeq(rules, LAMBDA r : r.type # "Required"),
                            phoneNumber, field, formData, FieldPath(field.name))
            ELSE <<>>
    IN  IF field.validations.isNull THEN <<>>
        ELSE required \o others

(* ValidateDateRangeField requiring toDate whatever the range configuration *)
ValidateDateRangeField_ToDateAlways(field, value, formData) ==
    LET rules == field.validations.list
        dateRangeData == GetDictionaryValue(value)
        fromDate == TryGetValue(dateRangeData.dict, "fromDate")
        toDate == TryGetValue(dateRangeData.dict, "toDate")
        fromEmpty == dateRangeData.isNull \/ IsEmpty(fromDate)
        toEmpty == IsEmpty(toDate)
    IN  IF field.validations.isNull THEN <<>>
        ELSE IF HasRequired(rules) /\ (fromEmpty \/ toEmpty)
        THEN <<FieldValidationError(FieldPath(field.name),
                                    FirstRequired(rules).message, "required")>>
        ELSE <<>>

ValidateDateRangeField(field, value, formData) ==
    LET rules == field.validations.list
        dateRangeData == GetDictionaryValue(value)
        toDateOptional == field.dateRangeConfig.toDateOptional = "true"
        fromDate == TryGetValue(dateRangeData.dict, "fromDate")
        toDate == TryGetValue(dateRangeData.dict, "toDate")
        fromEmpty == dateRangeData.isNull \/ IsEmpty(fromDate)
        toEmpty == IsEmpty(toDate)
    IN  IF field.validations.isNull THEN <<>>
        ELSE IF HasRequired(rules) /\ (fromEmpty \/ (~toDateOptional /\ toEmpty))
        THEN <<FieldValidationError(FieldPath(field.name),
                                    FirstRequired(rules).message, "required")>>
        ELSE <<>>

----------------------------------------------------------------------------
(* The two entry points *)

FieldErrors(field, value, data) ==
    CASE field.type = "Table" -> ValidateTableField(field, value, data)
      [] field.type = "DataGrid" -> ValidateDataGridField(field, value, data)
      [] field.type = "Phone" -> ValidatePhoneField(field, value, data)
      [] field.type = "DateRange" -> ValidateDateRangeField(field, value, data)
      [] OTHER -> ValidateField(field, value, data)

(* ValidateForm putting the errors of each field before those collected *)
ValidateForm_LaterFieldFirst(config, data) ==
    LET RECURSIVE from(_)
        from(i) ==
            IF i > Len(config.fields) THEN <<>>
            ELSE LET field == config.fields[i]
                 IN  from(i + 1) \o
                     (IF field.archived THEN <<>>
                      ELSE IF field.type = "Info" \/ field.type = "FormRef" THEN <<>>
                      ELSE FieldErrors(field, TryGetValue(data, field.name), data))
        errors == from(1)
    IN  IF Len(errors) = 0 THEN Success ELSE Failure(errors)

(* ValidateForm without the skip of archived fields *)
ValidateForm_NoArchivedSkip(config, data) ==
    LET RECURSIVE from(_)
        from(i) ==
            IF i > Len(config.fields) THEN <<>>
            ELSE LET field == config.fields[i]
                 IN  (IF field.type = "Info" \/ field.type = "FormRef" THEN <<>>
                      ELSE FieldErrors(field, TryGetValue(data, field.name), data))
                     \o from(i + 1)
        errors == from(1)
    IN  IF Len(errors) = 0 THEN Success ELSE Failure(errors)

ValidateForm(config, data) ==
    LET RECURSIVE from(_)
        from(i) ==
            IF i > Len(config.fields) THEN <<>>
            ELSE LET field == config.fields[i]
                 IN  (IF field.archived THEN <<>>
                      ELSE IF field.type = "Info" \/ field.type = "FormRef" THEN <<>>
                      ELSE FieldErrors(field, TryGetValue(data, field.name), data))
                     \o from(i + 1)
        errors == from(1)
    IN  IF Len(errors) = 0 THEN Success ELSE Failure(errors)

ValidateFieldValue(fieldConfig, value, formData) ==
    LET errors == ValidateField(fieldConfig, value, formData)
    IN  IF Len(errors) = 0 THEN Success ELSE Failure(errors)

----------------------------------------------------------------------------
(* The inputs of the model *)

RECURSIVE SeqsUpTo(_, _)
SeqsUpTo(S, n) ==
    IF n = 0 THEN {<<>>}
    ELSE LET shorter == SeqsUpTo(S, n - 1)
         IN  shorter \cup {Append(s, x) : s \in {q \in shorter : Len(q) = n - 1}, x \in S}

sEmployed == <<"e", "m", "p", "l", "o", "y", "e", "d">>
sContractor == <<"c", "o", "n", "t", "r", "a", "c", "t", "o", "r">>
sEmail == <<"a", "@", "b", ".", "c", "o">>
sPhone == <<"0", "4", "1", "2", "3", "4", "5", "6", "7", "8">>
sDate == <<"2", "0", "2", "4", "-", "0", "1", "-", "0", "1">>

Strings ==
    SeqsUpTo({" ", "a"}, MaxStrLen) \cup {<<"a", "b">>, <<"5">>, <<"1", "2">>, sEmail, sPhone}

NativeValues ==
    {Null} \cup {Str(s) : s \in Strings} \cup {Num(0), Num(5), Bool(FALSE), Bool(TRUE)}
    \cup {List(<<>>), List(<<Str(<<"a">>)>>), Map(EmptyMap),
          Map([k \in {"number"} |-> Str(sPhone)])}

WithJson(S) == S \cup {Json(x) : x \in S}

Values == WithJson(NativeValues)

rRequired == Rule("Required", Null, "This field is required")
rEmail == Rule("Email", Null, "Invalid email")
rMinLength == Rule("MinLength", Num(2), "Too short")
rMaxLength == Rule("MaxLength", Json(Num(1)), "Too long")
rMin == Rule("Min", Num(5), "Too small")
rMax == Rule("Max", Str(<<"1">>), "Too large")
rPattern == Rule("Pattern", Str(<<"^", "a">>), "Must start with a")
rBadPattern == Rule("Pattern", Str(<<"(">>), "Must match")
rNoPattern == Rule("Pattern", Null, "Must match something")
rJsonNoPattern == Rule("Pattern", Json(Null), "Must match anything")
rCustom == CustomRule("australianPhoneNumber", "Invalid Australian phone number")
rCustom2 == CustomRule("validator1", "Rejected by validator1")
rCustomUnnamed == CustomRule("", "Unnamed validator")
rRequiredIfEmployed ==
    When(Rule("Required", Null, "Income is required"),
         Condition("employmentType", "Equals", Str(sEmployed)))

AllRules ==
    {rRequired, rEmail, rMinLength, rMaxLength, rMin, rMax, rPattern, rBadPattern,
     rNoPattern, rJsonNoPattern, rCustom, rCustom2, rCustomUnnamed, rRequiredIfEmployed}

CoreRules == {rRequired, rMinLength}

RuleLists ==
    {<<r>> : r \in AllRules} \cup SeqsUpTo(CoreRules, MaxRules)
    \cup {<<rRequired, rCustom>>, <<rCustom, rRequired>>}

ValidationLists == {NoValidations} \cup {Validations(l) : l \in RuleLists}

HasCondition(validations) ==
    \E i \in 1..Len(validations.list) : ~validations.list[i].condition.isNull

(* Plain fields *)
PlainFields ==
    {FormFieldConfig("income", "Text", v) : v \in ValidationLists}
    \cup {FormFieldConfig("agree", "Checkbox", Validations(<<rRequired>>))}

(* Phone fields and their composites *)
PhoneFields == {FormFieldConfig("mobile", "Phone", v) : v \in ValidationLists}

PhoneNumbers == {Null, Str(<<>>), Str(<<" ">>), Str(<<"a">>), Str(sPhone)}

PhoneValues ==
    WithJson({Null, Str(sPhone), Map(EmptyMap),
              Map([k \in {"countryCode"} |-> Str(<<"+", "6", "1">>)])}
             \cup {Map([k \in {"number"} |-> n]) : n \in PhoneNumbers}
             \cup {Map([k \in {"number", "countryCode"} |->
                            IF k = "number" THEN n ELSE Str(<<"+", "6", "1">>)]) :
                        n \in {Str(<<>>), Str(sPhone)}})

(* Date-range fields *)
DateRangeValidationLists ==
    {NoValidations, Validations(<<>>), Validations(<<rRequired>>),
     Validations(<<rMinLength>>), Validations(<<rCustom>>),
     Validations(<<rMinLength, rRequired>>), Validations(<<rRequired, rRequired>>)}

DateRangeFields ==
    {[FormFieldConfig("period", "DateRange", v) EXCEPT !.dateRangeConfig = c] :
        v \in DateRangeValidationLists,
        c \in {NoDateRangeConfig} \cup
              {DateRangeConfig(o) : o \in {"null", "true", "false"}}}

Dates == {Str(<<>>), Str(sDate)}

DateRangeValues ==
    WithJson({Null, Str(sDate), Map(EmptyMap)}
             \cup {Map([k \in {"fromDate"} |-> Str(sDate)]),
                   Map([k \in {"toDate"} |-> Str(sDate)])}
             \cup {Map([k \in {"fromDate", "toDate"} |-> IF k = "fromDate" THEN d1 ELSE d2]) :
                        d1 \in Dates \cup {Null}, d2 \in Dates \cup {Null}})

(* Table fields *)
TableColumns ==
    {<<>>, <<Column("a", Validations(<<rRequired>>), FALSE), Column("b", NoValidations, FALSE)>>}
    \cup {<<Column("a", NoValidations, FALSE), Column("b", v, FALSE)>> :
            v \in {NoValidations, Validations(<<rRequired>>), Validations(<<rMinLength>>),
                   Validations(<<rRequired, rMinLength>>), Validations(<<rCustom>>)}}

TableFields ==
    {[FormFieldConfig("items", "Table", NoValidations) EXCEPT !.tableConfig = c] :
        c \in {NoTableConfig} \cup {TableConfig(cols) : cols \in TableColumns}}
    \cup {[FormFieldConfig("items", "Table", Validations(<<rRequired>>)) EXCEPT
              !.tableConfig =
                  TableConfig(<<Column("a", NoValidations, FALSE),
                                Column("b", Validations(<<rRequired>>), FALSE)>>)]}

Row(ca, cb) == Map([k \in {"a", "b"} |-> IF k = "a" THEN ca ELSE cb])

TableRows ==
    {Row(Str(<<>>), Str(<<>>)), Row(Str(<<"x">>), Str(<<>>)), Row(Str(<<"x">>), Str(<<"x">>)),
     Map([k \in {"a"} |-> Str(<<"x">>)]), Str(<<"x">>)}

TableValues ==
    WithJson({Null, Str(<<"x">>), Map(EmptyMap)}
             \cup {List(rows) : rows \in SeqsUpTo(TableRows, MaxRows)})

(* Datagrid fields *)
RowLabel(id, label) == [id |-> id, label |-> label]

DataGridColumns ==
    {<<>>}
    \cup {<<a, Column("b", vb, FALSE)>> :
            a \in {Column("a", NoValidations, FALSE),
                   Column("a", Validations(<<rRequired>>), FALSE),
                   Column("a", Validations(<<rRequired>>), TRUE)},
            vb \in {NoValidations, Validations(<<rRequired>>),
                    Validations(<<rRequired, rMinLength>>)}}

DataGridFields ==
    {[FormFieldConfig("budget", "DataGrid", NoValidations) EXCEPT !.dataGridConfig = c] :
        c \in {NoDataGridConfig} \cup
              {DataGridConfig(cols, <<RowLabel("r1", "Row 1"), RowLabel("r2", "Row 2")>>) :
                  cols \in DataGridColumns}}

GridRows ==
    {Map(EmptyMap), Str(<<"x">>), Row(Str(<<>>), Str(<<>>)), Row(Str(<<"x">>), Str(<<>>)),
     Row(Str(<<"x">>), Str(<<"x">>))}

DataGridValues ==
    WithJson({Null, Str(<<"x">>), Map(EmptyMap)}
             \cup {Map([k \in {"r1"} |-> r]) : r \in GridRows}
             \cup {Map([k \in {"r1", "r2"} |-> IF k = "r1" THEN r1 ELSE r2]) :
                        r1 \in GridRows, r2 \in GridRows})

(* Fields that take no part in validation *)
SkippedFields ==
    {FormFieldConfig("notice", type, Validations(<<rRequired>>)) : type \in {"Info", "FormRef"}}
    \cup {[f EXCEPT !.archived = TRUE] :
            f \in {FormFieldConfig("income", "Text", Validations(<<rRequired>>)),
                   FormFieldConfig("mobile", "Phone", Validations(<<rRequired>>)),
                   [FormFieldConfig("period", "DateRange", Validations(<<rRequired>>))
                       EXCEPT !.dateRangeConfig = DateRangeConfig("false")],
                   [FormFieldConfig("items", "Table", NoValidations) EXCEPT
                       !.tableConfig =
                           TableConfig(<<Column("a", NoValidations, FALSE),
                                         Column("b", Validations(<<rRequired>>), FALSE)>>)],
                   [FormFieldConfig("budget", "DataGrid", NoValidations) EXCEPT
                       !.dataGridConfig =
                           DataGridConfig(<<Column("a", Validations(<<rRequired>>), FALSE)>>,
                                          <<RowLabel("r1", "Row 1")>>)]}}

SkippedValues ==
    WithJson({Null, Str(<<>>), Str(<<"a">>), Map(EmptyMap),
              List(<<Map([k \in {"a"} |-> Str(<<"x">>)])>>),
              Map([k \in {"r1"} |-> Map(EmptyMap)])})

(* The field configurations of the model, each with the values submitted   *)
(* for it.                                                                 *)
FieldInputs ==
    {[field |-> f, value |-> v] : f \in PlainFields, v \in Values}
    \cup {[field |-> f, value |-> v] : f \in PhoneFields, v \in PhoneValues}
    \cup {[field |-> f, value |-> v] : f \in DateRangeFields, v \in DateRangeValues}
    \cup {[field |-> f, value |-> v] : f \in TableFields, v \in TableValues}
    \cup {[field |-> f, value |-> v] : f \in DataGridFields, v \in DataGridValues}
    \cup {[field |-> f, value |-> v] : f \in SkippedFields, v \in SkippedValues}

EmploymentTypes == {Str(sEmployed), Json(Str(sEmployed)), Str(sContractor), Str(<<>>)}

(* The submitted maps for one field: the field's key with its value, the   *)
(* key missing, and, when a rule of the field is conditional, the field    *)
(* the condition names.                                                    *)
OtherData(field) ==
    {EmptyMap} \cup
    (IF HasCondition(field.validations)
     THEN {[k \in {"employmentType"} |-> e] : e \in EmploymentTypes}
     ELSE {})

WithField(data, name, value) ==
    [k \in DOMAIN data \cup {name} |-> IF k = name THEN value ELSE data[k]]

FormConfig(fields) == [id |-> "form", fields |-> fields]

employmentTypeField == FormFieldConfig("employmentType", "Select", Validations(<<rRequired>>))
incomeField == FormFieldConfig("income", "Number", Validations(<<rRequiredIfEmployed, rMin>>))

emailField == FormFieldConfig("email", "Email", Validations(<<rRequired, rEmail>>))

(* Forms of a field that takes no part in validation and one that does *)
MixedForms ==
    UNION {{[config |-> FormConfig(fs),
             data |-> WithField(WithField(EmptyMap, "email", e), s.name, v)] :
                fs \in {<<s, emailField>>, <<emailField, s>>},
                e \in {Null, Str(<<>>), Str(<<"a">>), Str(sEmail)},
                v \in SkippedValues} :
           s \in SkippedFields}

(* Length and range rules over a range of bounds, each bound as a number,  *)
(* as a JSON number and as a numeric string                                *)
Bounds ==
    UNION {{Num(n), Json(Num(n)), Str(IntToString(n))} : n \in (0 - 1)..MaxBound}
    \cup {Null, Str(<<"a">>), Bool(TRUE)}

BoundRules ==
    {Rule(type, b, "Out of bounds") : type \in {"MinLength", "MaxLength", "Min", "Max"},
                                     b \in Bounds}

BoundedValues ==
    WithJson({Str(s) : s \in Strings \ {<<>>, <<" ">>}}
             \cup {Num(n) : n \in 0..MaxBound} \cup {Bool(TRUE), Map(EmptyMap)})

BoundedForms ==
    {[config |-> FormConfig(<<FormFieldConfig("code", "Text", Validations(<<r>>))>>),
      data |-> [k \in {"code"} |-> v]] : r \in BoundRules, v \in BoundedValues}

nameField == FormFieldConfig("name", "Text", Validations(<<rMinLength, rPattern>>))

linesField ==
    [FormFieldConfig("lines", "Table", NoValidations) EXCEPT
        !.tableConfig =
            TableConfig(<<Column("a", Validations(<<rRequired>>), FALSE),
                          Column("b", Validations(<<rMinLength, rPattern>>), FALSE)>>)]

totalsField ==
    [FormFieldConfig("totals", "DataGrid", NoValidations) EXCEPT
        !.dataGridConfig =
            DataGridConfig(<<Column("a", Validations(<<rRequired>>), FALSE),
                             Column("b", Validations(<<rMinLength, rPattern>>), FALSE)>>,
                           <<RowLabel("r2", "Row 2"), RowLabel("r1", "Row 1")>>)]

(* Forms of a composite field and a plain one, in both orders, with data   *)
(* on which several rules fail in several cells.                           *)
OrderedForms ==
    LET bad == Row(Str(<<>>), Str(<<"b">>))
        short == Row(Str(<<"x">>), Str(<<"a">>))
        good == Row(Str(<<"x">>), Str(<<"a", "b">>))
        names == {Null, Str(<<"b">>), Str(<<"a", "b">>)}
        lines == {List(<<bad, bad>>), List(<<short, bad>>), Json(List(<<bad, good>>))}
        totals == {Map([k \in {"r1", "r2"} |-> bad]),
                   Map([k \in {"r1", "r2"} |-> IF k = "r1" THEN bad ELSE short]),
                   Json(Map([k \in {"r1", "r2"} |-> IF k = "r1" THEN good ELSE bad]))}
    IN  {[config |-> FormConfig(fs), data |-> WithField(WithField(EmptyMap, "name", n), "lines", l)] :
            fs \in {<<linesField, nameField>>, <<nameField, linesField>>},
            n \in names, l \in lines}
        \cup
        {[config |-> FormConfig(fs), data |-> WithField(WithField(EmptyMap, "name", n), "totals", g)] :
            fs \in {<<totalsField, nameField>>, <<nameField, totalsField>>},
            n \in names, g \in totals}

FormInputs ==
    UNION {{[config |-> FormConfig(<<i.field>>),
             data |-> WithField(d, i.field.name, i.value)] : d \in OtherData(i.field)} :
           i \in FieldInputs}
    \cup UNION {{[config |-> FormConfig(<<i.field>>), data |-> d] : d \in OtherData(i.field)} :
                i \in {j \in FieldInputs : j.value = Null}}
    \cup {[config |-> FormConfig(<<employmentTypeField, incomeField>>),
           data |-> WithField([k \in {"employmentType"} |-> e], "income", v)] :
            e \in EmploymentTypes, v \in {Null, Str(<<>>), Str(<<"5">>), Num(0)}}
    \cup MixedForms
    \cup OrderedForms
    \cup BoundedForms
    \cup {[config |-> FormConfig(<<>>), data |-> EmptyMap]}

NoFormData == [isNull |-> TRUE, dict |-> EmptyMap]
FormData(d) == [isNull |-> FALSE, dict |-> d]

FieldValueInputs ==
    UNION {{[field |-> i.field, value |-> i.value, formData |-> FormData(d)] :
                d \in OtherData(i.field)} :
           i \in {j \in FieldInputs : j.field \in PlainFields \/ ~j.value.je}}
    \cup {[field |-> i.field, value |-> i.value, formData |-> NoFormData] :
            i \in {j \in FieldInputs : j.value = Null}}

ValidatorNames == {"australianPhoneNumber", "validator1"}
ValidatorFns == {"australianPhoneNumber", "validator1"}

----------------------------------------------------------------------------
(* The state machine: the registry's table, and the caller's position: the *)
(* operation it has called with what the operation returned, or idle once  *)
(* it has taken the result.  Every operation runs to completion, so a call *)
(* is one step.                                                            *)

NoResult == [void |-> TRUE]
Idle == [op |-> "idle"]

NoMutation == [inProgress |-> FALSE]

Init ==
    /\ validators = EmptyMap
    /\ asyncValidators = EmptyMap
    /\ sharedValidatorMap = EmptyMap
    /\ sharedAsyncValidatorMap = EmptyMap
    /\ serviceValidators = EmptyMap
    /\ packageAsyncValidators = EmptyMap
    /\ mutation = NoMutation
    /\ call = Idle
    /\ result = NoResult

(* Register keeping the function a name already has *)
Register_FirstWins(name, validator) ==
    /\ call = Idle
    /\ validators' = IF name \in DOMAIN validators THEN validators
                      ELSE [k \in DOMAIN validators \cup {name} |->
                               IF k = name THEN validator ELSE validators[k]]
    /\ call' = [op |-> "Register", name |-> name, validator |-> validator,
                overwritten |-> name \in DOMAIN validators]
    /\ result' = NoResult
    /\ UNCHANGED elsewhere

Register(name, validator) ==
    /\ call = Idle
    /\ validators' = [k \in DOMAIN validators \cup {name} |->
                         IF k = name THEN validator ELSE validators[k]]
    /\ call' = [op |-> "Register", name |-> name, validator |-> validator,
                overwritten |-> name \in DOMAIN validators]
    /\ result' = NoResult
    /\ UNCHANGED elsewhere

(* Unregister dropping every entry with the one it is given *)
Unregister_DropsAll(name) ==
    /\ call = Idle
    /\ validators' = EmptyMap
    /\ call' = [op |-> "Unregister", name |-> name]
    /\ result' = [removed |-> name \in DOMAIN validators]
    /\ UNCHANGED elsewhere

Unregister(name) ==
    /\ call = Idle
    /\ validators' = [k \in DOMAIN validators \ {name} |-> validators[k]]
    /\ call' = [op |-> "Unregister", name |-> name]
    /\ result' = [removed |-> name \in DOMAIN validators]
    /\ UNCHANGED elsewhere

Clear ==
    /\ call = Idle
    /\ validators' = EmptyMap
    /\ call' = [op |-> "Clear"]
    /\ result' = NoResult
    /\ UNCHANGED elsewhere

(* ValidateForm using up the validators it looked up *)
DoValidateForm_ConsumesValidators(config, data) ==
    /\ call = Idle
    /\ call' = [op |-> "ValidateForm", config |-> config, data |-> data]
    /\ result' = ValidateForm(config, data)
    /\ validators' = EmptyMap
    /\ UNCHANGED elsewhere

DoValidateForm(config, data) ==
    /\ call = Idle
    /\ call' = [op |-> "ValidateForm", config |-> config, data |-> data]
    /\ result' = ValidateForm(config, data)
    /\ UNCHANGED <<validators, elsewhere>>

DoValidateFieldValue(fieldConfig, value, formData) ==
    /\ call = Idle
    /\ call' = [op |-> "ValidateFieldValue", field |-> fieldConfig, value |-> value,
                formData |-> formData]
    /\ result' = ValidateFieldValue(fieldConfig, value,
                                    IF formData.isNull THEN EmptyMap ELSE formData.dict)
    /\ UNCHANGED <<validators, elsewhere>>

Return ==
    /\ call # Idle
    /\ call' = Idle
    /\ result' = NoResult
    /\ UNCHANGED <<validators, elsewhere>>

----------------------------------------------------------------------------
(* The other operations of the two .NET registries.  A table is a function *)
(* from names to the functions stored under them.                          *)

(* _validators[name] = validator *)
SetItem(table, name, validator) ==
    [k \in DOMAIN table \cup {name} |-> IF k = name THEN validator ELSE table[k]]

(* Remove leaving the entry where it is *)
Remove_KeepsEntry(table, name) == table

(* _validators.Remove(name) *)
Remove(table, name) == [k \in DOMAIN table \ {name} |-> table[k]]

(* foreach (var kvp in validators) Register(kvp.Key, kvp.Value) *)
SetAll(table, entries) ==
    [k \in DOMAIN table \cup DOMAIN entries |->
        IF k \in DOMAIN entries THEN entries[k] ELSE table[k]]

(* _validators.TryGetValue(name, out var validator) ? validator : null *)
Lookup(table, name) ==
    IF name \in DOMAIN table
    THEN [isNull |-> FALSE, fn |-> table[name]]
    ELSE [isNull |-> TRUE, fn |-> ""]

(* _validators.ContainsKey(name) *)
Has(table, name) == name \in DOMAIN table

AsyncValidatorNames == {"validator1", "checkEmailExists"}
AsyncValidatorFns == {"checkEmailExists", "checkUsernameUnique"}

(* _validators.Keys.ToList(): the keys in the order the table enumerates   *)
(* them, which for the tables of the model is this fixed order.            *)
KeyOrder == <<"australianPhoneNumber", "validator1", "checkEmailExists">>
Keys(table) == SelectSeq(KeyOrder, LAMBDA name : name \in DOMAIN table)

(* The dictionaries handed to RegisterAll *)
EntriesOver(names, fns) == UNION {[S -> fns] : S \in SUBSET names}

RegisterAll(entries) ==
    /\ call = Idle
    /\ validators' = SetAll(validators, entries)
    /\ call' = [op |-> "RegisterAll", validators |-> entries,
                overwritten |-> DOMAIN entries \cap DOMAIN validators]
    /\ result' = NoResult
    /\ UNCHANGED elsewhere

DoGet(name) ==
    /\ call = Idle
    /\ call' = [op |-> "Get", name |-> name]
    /\ result' = Lookup(validators, name)
    /\ UNCHANGED <<validators, elsewhere>>

DoHas(name) ==
    /\ call = Idle
    /\ call' = [op |-> "Has", name |-> name]
    /\ result' = [has |-> Has(validators, name)]
    /\ UNCHANGED <<validators, elsewhere>>

DoList ==
    /\ call = Idle
    /\ call' = [op |-> "List"]
    /\ result' = [names |-> Keys(validators)]
    /\ UNCHANGED <<validators, elsewhere>>

(* The state outside the asynchronous .NET registry and the caller *)
elsewhereAsync ==
    <<validators, sharedValidatorMap, sharedAsyncValidatorMap, serviceValidators,
      packageAsyncValidators, mutation>>

AsyncRegister(name, validator) ==
    /\ call = Idle
    /\ asyncValidators' = SetItem(asyncValidators, name, validator)
    /\ call' = [op |-> "AsyncRegister", name |-> name, validator |-> validator,
                overwritten |-> name \in DOMAIN asyncValidators]
    /\ result' = NoResult
    /\ UNCHANGED elsewhereAsync

AsyncRegisterAll(entries) ==
    /\ call = Idle
    /\ asyncValidators' = SetAll(asyncValidators, entries)
    /\ call' = [op |-> "AsyncRegisterAll", validators |-> entries,
                overwritten |-> DOMAIN entries \cap DOMAIN asyncValidators]
    /\ result' = NoResult
    /\ UNCHANGED elsewhereAsync

AsyncUnregister(name) ==
    /\ call = Idle
    /\ asyncValidators' = Remove(asyncValidators, name)
    /\ call' = [op |-> "AsyncUnregister", name |-> name]
    /\ result' = [removed |-> name \in DOMAIN asyncValidators]
    /\ UNCHANGED elsewhereAsync

(* Clear of the asynchronous registry emptying the synchronous one too *)
AsyncClear_ClearsBoth ==
    /\ call = Idle
    /\ asyncValidators' = EmptyMap
    /\ validators' = EmptyMap
    /\ call' = [op |-> "AsyncClear"]
    /\ result' = NoResult
    /\ UNCHANGED <<sharedValidatorMap, sharedAsyncValidatorMap, serviceValidators,
                   packageAsyncValidators, mutation>>

AsyncClear ==
    /\ call = Idle
    /\ asyncValidators' = EmptyMap
    /\ call' = [op |-> "AsyncClear"]
    /\ result' = NoResult
    /\ UNCHANGED elsewhereAsync

DoAsyncGet(name) ==
    /\ call = Idle
    /\ call' = [op |-> "AsyncGet", name |-> name]
    /\ result' = Lookup(asyncValidators, name)
    /\ UNCHANGED <<asyncValidators, elsewhereAsync>>

DoAsyncHas(name) ==
    /\ call = Idle
    /\ call' = [op |-> "AsyncHas", name |-> name]
    /\ result' = [has |-> Has(asyncValidators, name)]
    /\ UNCHANGED <<asyncValidators, elsewhereAsync>>

DoAsyncList ==
    /\ call = Idle
    /\ call' = [op |-> "AsyncList"]
    /\ result' = [names |-> Keys(asyncValidators)]
    /\ UNCHANGED <<asyncValidators, elsewhereAsync>>

Next ==
    \/ \E name \in ValidatorNames, validator \in ValidatorFns : Register(name, validator)
    \/ \E name \in ValidatorNames : Unregister(name)
    \/ Clear
    \/ \E i \in FormInputs : DoValidateForm(i.config, i.data)
    \/ \E i \in FieldValueInputs : DoValidateFieldValue(i.field, i.value, i.formData)
    \/ Return

Spec == Init /\ [][Next]_vars

(* The two .NET registries with every operation they have, and the         *)
(* validation of forms that look up a custom validator.                    *)
CustomForms ==
    {i \in FormInputs :
        /\ Len(i.config.fields) = 1
        /\ i.config.fields[1].name \in {"income", "mobile"}
        /\ i.config.fields[1].validations \in
              {Validations(<<rCustom>>), Validations(<<rCustom2>>),
               Validations(<<rRequired, rCustom>>)}
        /\ \A k \in DOMAIN i.data : ~i.data[k].je}

RegistryNext ==
    \/ \E name \in ValidatorNames, validator \in ValidatorFns : Register(name, validator)
    \/ \E entries \in EntriesOver(ValidatorNames, ValidatorFns) : RegisterAll(entries)
    \/ \E name \in ValidatorNames : Unregister(name)
    \/ Clear
    \/ \E name \in ValidatorNames : DoGet(name)
    \/ \E name \in ValidatorNames : DoHas(name)
    \/ DoList
    \/ \E name \in AsyncValidatorNames, validator \in AsyncValidatorFns :
            AsyncRegister(name, validator)
    \/ \E entries \in EntriesOver(AsyncValidatorNames, AsyncValidatorFns) :
            AsyncRegisterAll(entries)
    \/ \E name \in AsyncValidatorNames : AsyncUnregister(name)
    \/ AsyncClear
    \/ \E name \in AsyncValidatorNames : DoAsyncGet(name)
    \/ \E name \in AsyncValidatorNames : DoAsyncHas(name)
    \/ DoAsyncList
    \/ \E i \in CustomForms : DoValidateForm(i.config, i.data)
    \/ Return

RegistrySpec == Init /\ [][RegistryNext]_vars

----------------------------------------------------------------------------
(* Vocabulary of the properties.  These definitions read the submitted     *)
(* data by its shape alone, whichever representation it arrived in.        *)

IsValidateForm == call.op = "ValidateForm"
IsValidateFieldValue == call.op = "ValidateFieldValue"

(* The call validated a form whose only field is of one of the given types *)
(* and is not archived.                                                    *)
SingleFieldOf(types) ==
    /\ IsValidateForm
    /\ Len(call.config.fields) = 1
    /\ call.config.fields[1].type \in types
    /\ ~call.config.fields[1].archived

TheField == call.config.fields[1]
TheValue == TryGetValue(call.data, TheField.name)

PlainTypes == {"Text", "Email", "Number", "Textarea", "Select", "Checkbox", "Radio", "Date"}

(* Emptiness as the design states it: absent or null, a blank string, a    *)
(* list without elements.                                                  *)
Blank(s) == \A i \in DOMAIN s : s[i] = " "
Empty(v) ==
    \/ v.t = "null"
    \/ v.t = "str" /\ Blank(v.v)
    \/ v.t = "list" /\ Len(v.v) = 0

(* The member of a submitted map, absent when the value is no map or has   *)
(* no such key.                                                            *)
Member(v, key) == IF v.t = "map" /\ key \in DOMAIN v.v THEN v.v[key] ELSE Null

(* A value with its representation forgotten *)
RECURSIVE Plain(_)
Plain(v) ==
    CASE v.t = "map" -> Map([k \in DOMAIN v.v |-> Plain(v.v[k])])
      [] v.t = "list" -> List([i \in DOMAIN v.v |-> Plain(v.v[i])])
      [] OTHER -> [v EXCEPT !.je = FALSE]

ErrorOf(path, rule) ==
    FieldValidationError(path, rule.message, ToLowerInvariant(rule.type))

Occurrences(errors, e) == Cardinality({j \in DOMAIN errors : errors[j] = e})

RulesOf(validations) == {validations.list[i] : i \in DOMAIN validations.list}

----------------------------------------------------------------------------
(* Conditional rules *)

(* Whether a rule's condition is satisfied by the submitted data *)
ConditionSatisfied(condition, data) ==
    LET target == TryGetValue(data, condition.field)
        same == target.t = condition.value.t /\ Plain(target).v = Plain(condition.value).v
    IN  CASE condition.operator = "Equals" -> same
          [] condition.operator = "NotEquals" -> ~same
          [] condition.operator = "IsEmpty" -> Empty(target)
          [] condition.operator = "IsNotEmpty" -> ~Empty(target)

CallFields ==
    IF IsValidateForm THEN {call.config.fields[i] : i \in DOMAIN call.config.fields}
    ELSE IF IsValidateFieldValue THEN {call.field}
    ELSE {}

CallData ==
    IF IsValidateForm THEN call.data
    ELSE IF IsValidateFieldValue /\ ~call.formData.isNull THEN call.formData.dict
    ELSE EmptyMap

(* C1: a rule that carries a condition contributes no error unless the     *)
(* condition is satisfied by the referenced field's current value; a       *)
(* required rule on income conditional on employmentType = employed gives  *)
(* no error while employmentType is anything else, even for an empty       *)
(* income.                                                                 *)
C1_ConditionGatesRule ==
    \A f \in CallFields : \A rule \in RulesOf(f.validations) :
        (/\ f.type \in PlainTypes
         /\ ~rule.condition.isNull
         /\ ~ConditionSatisfied(rule.condition, CallData))
        => Occurrences(result.errors, ErrorOf(FieldPath(f.name), rule)) = 0

(* C2: ValidateFieldValue returns what ValidateForm returns on the form    *)
(* whose only field is the given one, with the value stored under the      *)
(* field's name in the form data.                                          *)
C2_FieldValueSameAsForm ==
    IsValidateFieldValue =>
        result = ValidateForm(FormConfig(<<call.field>>),
                              WithField(CallData, call.field.name, call.value))

(* C3: a plain field with one unconditional required rule gets a required  *)
(* error exactly when the submitted value is absent or null, a blank       *)
(* string or a list without elements; a number, a boolean and a map never  *)
(* count as empty.                                                         *)
C3_RequiredIffEmpty ==
    (/\ SingleFieldOf(PlainTypes)
     /\ ~TheField.validations.isNull
     /\ Len(TheField.validations.list) = 1
     /\ TheField.validations.list[1].type = "Required"
     /\ TheField.validations.list[1].condition.isNull)
    => /\ Empty(TheValue) =>
            result = Failure(<<ErrorOf(FieldPath(TheField.name), TheField.validations.list[1])>>)
       /\ ~Empty(TheValue) => result = Success

C3_Witness ==
    /\ SingleFieldOf(PlainTypes)
    /\ TheField.validations = Validations(<<rRequired>>)
    /\ TheValue.t = "str"
    /\ Len(TheValue.v) > 0
    /\ Blank(TheValue.v)
    /\ ~result.valid

----------------------------------------------------------------------------
(* Table fields *)

TableRowsOf(v) == IF v.t = "list" THEN v.v ELSE <<>>

(* Every configured column of the row is empty *)
AllColumnsEmpty(columns, row) ==
    \A c \in DOMAIN columns : Empty(Member(row, columns[c].name))

(* The triples (row, column, rule) of a table whose rule fails on its cell *)
FailingCells(columns, rows) ==
    {x \in UNION {{<<i, c, k>> : k \in DOMAIN columns[c].validations.list} :
                    i \in DOMAIN rows, c \in DOMAIN columns} :
        /\ ~AllColumnsEmpty(columns, rows[x[1]])
        /\ ~columns[x[2]].validations.isNull
        /\ ~ValidateRule(Plain(Member(rows[x[1]], columns[x[2]].name)),
                         columns[x[2]].validations.list[x[3]],
                         TempField(columns[x[2]]), call.data)}

(* C4: in a table field a row whose configured columns are all empty gives *)
(* no error; in every other row each column rule is evaluated on its cell  *)
(* and a failure is reported at field[i].column, i being the row's index   *)
(* in the submitted list, skipped rows counted.  Rows                      *)
(* [{a:"",b:""},{a:"x",b:""}] with required on column b give exactly one   *)
(* error, at field[1].b.                                                   *)
C4_TableRows ==
    (SingleFieldOf({"Table"}) /\ ~TheField.tableConfig.isNull)
    => LET columns == TheField.tableConfig.columns
           rows == TableRowsOf(TheValue)
           failing == FailingCells(columns, rows)
           errorAt(x) ==
               ErrorOf(TableCellPath(TheField.name, x[1] - 1, columns[x[2]].name),
                       columns[x[2]].validations.list[x[3]])
       IN  /\ Len(result.errors) = Cardinality(failing)
           /\ \A x \in failing : Occurrences(result.errors, errorAt(x)) = 1
           /\ \A i \in DOMAIN rows :
                AllColumnsEmpty(columns, rows[i]) =>
                    \A j \in DOMAIN result.errors :
                        SubSeq(result.errors[j].field, 1, 4)
                            # <<TheField.name, "[", ToString(i - 1), "]">>

C4_Witness ==
    /\ SingleFieldOf({"Table"})
    /\ TheField.tableConfig =
          TableConfig(<<Column("a", NoValidations, FALSE),
                        Column("b", Validations(<<rRequired>>), FALSE)>>)
    /\ Plain(TheValue) = List(<<Row(Str(<<>>), Str(<<>>)), Row(Str(<<"x">>), Str(<<>>))>>)
    /\ result = Failure(<<FieldValidationError(<<"items", "[", "1", "]", ".", "b">>,
                                               rRequired.message, "required")>>)

----------------------------------------------------------------------------
(* Phone fields *)

HasUnconditionalRequired(rules) ==
    \E i \in DOMAIN rules : rules[i].type = "Required" /\ rules[i].condition.isNull

RequiredErrors(errors) == {j \in DOMAIN errors : errors[j].rule = "required"}

(* C5: a phone field with a required rule gets exactly one required error, *)
(* at the field's own name, when the composite is absent or its number is  *)
(* empty, and no required error when the number is not empty; while the    *)
(* number is absent or empty no other rule produces an error.              *)
C5_PhoneRequired ==
    (SingleFieldOf({"Phone"}) /\ ~TheField.validations.isNull)
    => LET number == Member(TheValue, "number")
           required == RequiredErrors(result.errors)
       IN  /\ (HasUnconditionalRequired(TheField.validations.list) /\ Empty(number))
                => /\ Cardinality(required) = 1
                   /\ \A j \in required : result.errors[j].field = <<TheField.name>>
           /\ ~Empty(number) => required = {}
           /\ Empty(number) => required = DOMAIN result.errors

C5_Witness ==
    /\ SingleFieldOf({"Phone"})
    /\ TheField.validations = Validations(<<rCustom, rRequired>>)
    /\ "australianPhoneNumber" \in DOMAIN validators
    /\ validators["australianPhoneNumber"] = "australianPhoneNumber"
    /\ Plain(TheValue) = Map([k \in {"number"} |-> Str(<<" ">>)])
    /\ result = Failure(<<FieldValidationError(<<"mobile">>, rRequired.message, "required")>>)

(* C6: while the number of a phone field is not empty, every rule of the   *)
(* field other than required, a registered custom validator included, is   *)
(* evaluated on the number and never on the composite, and each failure is *)
(* reported at the field's own name.                                       *)
C6_PhoneRulesOnNumber ==
    (/\ SingleFieldOf({"Phone"})
     /\ ~TheField.validations.isNull
     /\ ~Empty(Member(TheValue, "number")))
    => LET number == Plain(Member(TheValue, "number"))
           others == {r \in RulesOf(TheField.validations) : r.type # "Required"}
       IN  /\ \A r \in others :
                (Occurrences(result.errors, ErrorOf(<<TheField.name>>, r)) > 0)
                    <=> ~ValidateRule(number, r, TheField, call.data)
           /\ \A j \in DOMAIN result.errors : result.errors[j].field = <<TheField.name>>

C6_Witness ==
    /\ SingleFieldOf({"Phone"})
    /\ TheField.validations = Validations(<<rCustom>>)
    /\ "australianPhoneNumber" \in DOMAIN validators
    /\ validators["australianPhoneNumber"] = "australianPhoneNumber"
    /\ Member(TheValue, "number") = Str(sPhone)
    /\ ~australianPhoneNumber(TheValue)
    /\ result = Success

----------------------------------------------------------------------------
(* Date-range fields *)

(* C7: a date-range field with a required rule gets one required error at  *)
(* the field path exactly when fromDate is empty (or the composite is      *)
(* absent), or toDate is empty and the range configuration does not set    *)
(* toDateOptional; no other kind of rule produces an error on a date-range *)
(* field.                                                                  *)
C7_DateRangeRequired ==
    SingleFieldOf({"DateRange"})
    => LET fromDate == Member(TheValue, "fromDate")
           toDate == Member(TheValue, "toDate")
           optional == /\ ~TheField.dateRangeConfig.isNull
                       /\ TheField.dateRangeConfig.toDateOptional = "true"
           hasRequired == /\ ~TheField.validations.isNull
                          /\ HasRequired(TheField.validations.list)
           missing == Empty(fromDate) \/ (Empty(toDate) /\ ~optional)
       IN  /\ (hasRequired /\ missing)
                => /\ Len(result.errors) = 1
                   /\ result.errors[1].field = <<TheField.name>>
                   /\ result.errors[1].rule = "required"
                   /\ ~result.valid
           /\ ~(hasRequired /\ missing) => result = Success

C7_Witness ==
    /\ SingleFieldOf({"DateRange"})
    /\ TheField.validations = Validations(<<rMinLength, rRequired>>)
    /\ TheField.dateRangeConfig = DateRangeConfig("true")
    /\ Plain(TheValue) =
          Map([k \in {"fromDate", "toDate"} |-> IF k = "fromDate" THEN Str(sDate) ELSE Str(<<>>)])
    /\ result = Success

----------------------------------------------------------------------------
(* Datagrid fields *)

(* C8: in a datagrid field every rule of every column that is not computed *)
(* is evaluated on the cell data[rowId][column] of each declared row       *)
(* label, a cell or a row missing from the submitted map counting as an    *)
(* absent value, and each failure is reported at field.rowId.column; a     *)
(* computed column contributes no error.                                   *)
C8_DataGridCells ==
    (/\ SingleFieldOf({"DataGrid"})
     /\ ~TheField.dataGridConfig.isNull
     /\ TheValue.t = "map"
     /\ \A k \in DOMAIN TheValue.v : TheValue.v[k].t = "map")
    => LET config == TheField.dataGridConfig
       IN  \A r \in DOMAIN config.rowLabels : \A c \in DOMAIN config.columns :
             LET column == config.columns[c]
                 rowId == config.rowLabels[r].id
                 cell == Plain(Member(Member(TheValue, rowId), column.name))
                 path == DataGridCellPath(TheField.name, rowId, column.name)
             IN  /\ column.computed =>
                        \A j \in DOMAIN result.errors : result.errors[j].field # path
                 /\ ~column.computed =>
                        \A rule \in RulesOf(column.validations) :
                            (Occurrences(result.errors, ErrorOf(path, rule)) = 1)
                                <=> ~ValidateRule(cell, rule, TempField(column), call.data)

----------------------------------------------------------------------------
(* Rule kinds *)

(* Every rule of a field: its own and those of its table and grid columns *)
AllRulesOf(f) ==
    RulesOf(f.validations)
    \cup UNION {RulesOf(f.tableConfig.columns[c].validations) :
                    c \in DOMAIN f.tableConfig.columns}
    \cup UNION {RulesOf(f.dataGridConfig.columns[c].validations) :
                    c \in DOMAIN f.dataGridConfig.columns}

IsValidation == IsValidateForm \/ IsValidateFieldValue

(* C9: a custom rule whose validator name is not registered when the call  *)
(* is made never appears in the error list of ValidateForm or of           *)
(* ValidateFieldValue, whatever the value and the kind of field.           *)
C9_UnregisteredCustomPasses ==
    IsValidation =>
        \A f \in CallFields : \A rule \in AllRulesOf(f) :
            (rule.type = "Custom" /\ rule.customValidatorName \notin DOMAIN validators)
            => \A j \in DOMAIN result.errors :
                    ~(result.errors[j].rule = "custom"
                      /\ result.errors[j].message = rule.message)

C9_Witness ==
    /\ SingleFieldOf(PlainTypes)
    /\ TheField.validations = Validations(<<rCustom>>)
    /\ "australianPhoneNumber" \notin DOMAIN validators
    /\ ~australianPhoneNumber(TheValue)
    /\ result = Success

(* The value a plain field's rules are evaluated on *)
PlainValue == IF IsValidateForm THEN TheValue ELSE call.value
PlainField == IF IsValidateForm THEN TheField ELSE call.field

IsPlainCall ==
    \/ SingleFieldOf(PlainTypes)
    \/ IsValidateFieldValue /\ call.field.type \in PlainTypes

SkippedWhenEmpty == {"email", "minlength", "maxlength", "min", "max", "pattern"}

(* C10: on an empty value (absent, a blank string, a list without          *)
(* elements) the rules email, minLength, maxLength, min, max and pattern   *)
(* pass whatever their configured value; required and custom are still     *)
(* evaluated.                                                              *)
C10_EmptySkipsBuiltInRules ==
    (IsPlainCall /\ Empty(PlainValue))
    => /\ \A j \in DOMAIN result.errors : result.errors[j].rule \notin SkippedWhenEmpty
       /\ \A rule \in RulesOf(PlainField.validations) :
            /\ (rule.type = "Required" /\ rule.condition.isNull)
                 => Occurrences(result.errors, ErrorOf(<<PlainField.name>>, rule)) > 0
            /\ (/\ rule.type = "Custom"
                /\ rule.customValidatorName \in DOMAIN validators
                /\ ~CustomValidatorFn(validators[rule.customValidatorName], PlainValue,
                                      Null, PlainField, CallData))
                 => Occurrences(result.errors, ErrorOf(<<PlainField.name>>, rule)) > 0

C10_Witness ==
    /\ SingleFieldOf(PlainTypes)
    /\ TheField.validations = Validations(<<rMinLength>>)
    /\ TheValue = Str(<<" ">>)
    /\ result = Success

----------------------------------------------------------------------------
(* Counting errors *)

(* The rule is in force (it has no condition, or its condition is          *)
(* satisfied) and fails on the value.  A built-in rule judges the value by *)
(* its shape; a custom validator is handed the value as it was submitted.  *)
RuleFails(rule, value, field, data) ==
    /\ rule.condition.isNull \/ ConditionSatisfied(rule.condition, data)
    /\ ~ValidateRule(IF rule.type = "Custom" THEN value ELSE Plain(value), rule, field, data)

Failure_(path, id) == [path |-> path, id |-> id]

(* The failures of a field on its submitted value: one for every rule in   *)
(* force that fails where the field's kind evaluates it.                   *)
FailuresOf(f, v, data) ==
    LET rules == f.validations.list
        number == Member(v, "number")
        optional == ~f.dateRangeConfig.isNull /\ f.dateRangeConfig.toDateOptional = "true"
        missing == Empty(Member(v, "fromDate")) \/ (Empty(Member(v, "toDate")) /\ ~optional)
        inForce(rule) == rule.condition.isNull \/ ConditionSatisfied(rule.condition, data)
        tcols == f.tableConfig.columns
        rows == TableRowsOf(v)
        gcols == f.dataGridConfig.columns
        labels == f.dataGridConfig.rowLabels
    IN  CASE f.archived \/ f.type \in {"Info", "FormRef"} -> {}
          [] f.type = "Phone" ->
                {Failure_(FieldPath(f.name), <<k>>) : k \in
                    {k \in DOMAIN rules :
                        IF rules[k].type = "Required"
                        THEN inForce(rules[k]) /\ Empty(number)
                        ELSE ~Empty(number) /\ RuleFails(rules[k], number, f, data)}}
          [] f.type = "DateRange" ->
                {Failure_(FieldPath(f.name), <<k>>) : k \in
                    {k \in DOMAIN rules :
                        rules[k].type = "Required" /\ inForce(rules[k]) /\ missing}}
          [] f.type = "Table" ->
                UNION {{Failure_(TableCellPath(f.name, i - 1, tcols[c].name), <<i, c, k>>) :
                            k \in {k \in DOMAIN tcols[c].validations.list :
                                      /\ ~AllColumnsEmpty(tcols, rows[i])
                                      /\ RuleFails(tcols[c].validations.list[k],
                                                   Member(rows[i], tcols[c].name),
                                                   TempField(tcols[c]), data)}} :
                       i \in DOMAIN rows, c \in DOMAIN tcols}
          [] f.type = "DataGrid" ->
                UNION {{Failure_(DataGridCellPath(f.name, labels[r].id, gcols[c].name),
                                 <<r, c, k>>) :
                            k \in {k \in DOMAIN gcols[c].validations.list :
                                      /\ ~gcols[c].computed
                                      /\ RuleFails(gcols[c].validations.list[k],
                                                   Member(Member(v, labels[r].id), gcols[c].name),
                                                   TempField(gcols[c]), data)}} :
                       r \in DOMAIN labels, c \in DOMAIN gcols}
          [] OTHER ->
                {Failure_(FieldPath(f.name), <<k>>) : k \in
                    {k \in DOMAIN rules : RuleFails(rules[k], v, f, data)}}

FormFailures ==
    UNION {FailuresOf(call.config.fields[i],
                      TryGetValue(call.data, call.config.fields[i].name), call.data) :
           i \in DOMAIN call.config.fields}

ErrorsAt(path) == {j \in DOMAIN result.errors : result.errors[j].field = path}

(* Every row a datagrid field declares is submitted, as a map *)
GridRowsSubmitted(f, v) ==
    f.type = "DataGrid" =>
        \A r \in DOMAIN f.dataGridConfig.rowLabels :
            Member(v, f.dataGridConfig.rowLabels[r].id).t = "map"

(* C11: at every path the errors of ValidateForm are as many as the rules  *)
(* that fail there, on plain and on composite fields alike: a failing rule *)
(* never suppresses the error of a sibling rule, a second rule of the same *)
(* kind included.  Stated for forms whose rules carry no condition and     *)
(* whose datagrid rows are all submitted.                                  *)
C11_OneErrorPerFailedRule ==
    (/\ IsValidateForm
     /\ \A f \in CallFields :
            /\ \A rule \in AllRulesOf(f) : rule.condition.isNull
            /\ GridRowsSubmitted(f, TryGetValue(call.data, f.name)))
    => \A path \in {x.path : x \in FormFailures}
                   \cup {result.errors[j].field : j \in DOMAIN result.errors} :
            Cardinality(ErrorsAt(path)) = Cardinality({x \in FormFailures : x.path = path})

----------------------------------------------------------------------------
(* Fields that are never validated *)

Skipped(f) == f.archived \/ f.type \in {"Info", "FormRef"}

(* The form without the fields that are never validated *)
WithoutSkipped(config) ==
    [config EXCEPT !.fields = SelectSeq(config.fields, LAMBDA f : ~Skipped(f))]

(* C12: ValidateForm reports no error for an archived field of any kind,   *)
(* nor for an info or a form-reference field, whatever its rules and the   *)
(* data: the result is that of the form with those fields removed.         *)
C12_SkippedFieldsIgnored ==
    IsValidateForm =>
        /\ result = ValidateForm(WithoutSkipped(call.config), call.data)
        /\ \A f \in CallFields :
            (Skipped(f) /\ \A g \in CallFields : g.name = f.name => Skipped(g))
            => \A j \in DOMAIN result.errors : Head(result.errors[j].field) # f.name

C12_Witness ==
    /\ IsValidateForm
    /\ Len(call.config.fields) = 2
    /\ call.config.fields[1].archived
    /\ call.config.fields[1].type = "Phone"
    /\ HasRequired(call.config.fields[1].validations.list)
    /\ Empty(TryGetValue(call.data, call.config.fields[1].name))
    /\ result = Failure(<<ErrorOf(<<"email">>, rRequired)>>)

----------------------------------------------------------------------------
(* Order of the errors *)

(* The validated field an error addresses, by the head of its path *)
FieldIndex(e) ==
    CHOOSE i \in DOMAIN call.config.fields :
        call.config.fields[i].name = Head(e.field) /\ ~Skipped(call.config.fields[i])

ColumnIndex(columns, name) == CHOOSE c \in DOMAIN columns : columns[c].name = name

(* Where an error was found: the field's position in the form, then the    *)
(* row and the column of the cell (0 and 0 outside tables and datagrids).  *)
LocationOf(e) ==
    LET f == call.config.fields[FieldIndex(e)]
    IN  CASE f.type = "Table" ->
                <<FieldIndex(e),
                  CHOOSE i \in 0..(MaxRows + 1) : ToString(i) = e.field[3],
                  ColumnIndex(f.tableConfig.columns, e.field[6])>>
          [] f.type = "DataGrid" ->
                <<FieldIndex(e),
                  CHOOSE r \in DOMAIN f.dataGridConfig.rowLabels :
                      f.dataGridConfig.rowLabels[r].id = e.field[3],
                  ColumnIndex(f.dataGridConfig.columns, e.field[5])>>
          [] OTHER -> <<FieldIndex(e), 0, 0>>

(* The rules evaluated at a location, in configured order *)
RulesAt(loc) ==
    LET f == call.config.fields[loc[1]]
    IN  CASE f.type = "Table" -> f.tableConfig.columns[loc[3]].validations.list
          [] f.type = "DataGrid" -> f.dataGridConfig.columns[loc[3]].validations.list
          [] OTHER -> f.validations.list

LexLeq(a, b) ==
    \/ a[1] < b[1]
    \/ a[1] = b[1] /\ a[2] < b[2]
    \/ a[1] = b[1] /\ a[2] = b[2] /\ a[3] <= b[3]

RECURSIVE IsSubsequence(_, _)
IsSubsequence(a, b) ==
    IF a = <<>> THEN TRUE
    ELSE IF b = <<>> THEN FALSE
    ELSE IF Head(a) = Head(b) THEN IsSubsequence(Tail(a), Tail(b))
    ELSE IsSubsequence(a, Tail(b))

(* C13: the errors of ValidateForm come in the declaration order of the    *)
(* fields; within a table by row index, then column, and within a datagrid *)
(* by row label, then column, both in configured order; and at one place   *)
(* in the order of the rules.  No error of a later field precedes one of   *)
(* an earlier field.                                                       *)
C13_ErrorsInDeclarationOrder ==
    IsValidateForm =>
        LET errors == result.errors
        IN  /\ \A j, k \in DOMAIN errors :
                j < k => LexLeq(LocationOf(errors[j]), LocationOf(errors[k]))
            /\ \A j \in DOMAIN errors :
                LET here == SelectSeq(errors, LAMBDA e : e.field = errors[j].field)
                    rules == RulesAt(LocationOf(errors[j]))
                IN  IsSubsequence(here, [k \in DOMAIN rules |-> ErrorOf(errors[j].field, rules[k])])

C13_Witness ==
    /\ IsValidateForm
    /\ call.config.fields = <<linesField, nameField>>
    /\ Len(result.errors) = 8
    /\ result.errors[1] = ErrorOf(TableCellPath("lines", 0, "a"), rRequired)
    /\ result.errors[6] = ErrorOf(TableCellPath("lines", 1, "b"), rPattern)
    /\ result.errors[7] = ErrorOf(<<"name">>, rMinLength)

----------------------------------------------------------------------------
(* Forms without rules *)

(* C15: when no field of the form and no column of its tables and          *)
(* datagrids has a rule, ValidateForm returns valid with no errors for any *)
(* data: missing keys, nulls and values of the wrong shape included.       *)
C15_NoRulesAlwaysValid ==
    (IsValidateForm /\ \A f \in CallFields : AllRulesOf(f) = {})
    => result = Success

C15_Witness ==
    /\ SingleFieldOf({"Phone"})
    /\ TheField.validations = Validations(<<>>)
    /\ TheValue.t = "str"
    /\ result = Success

----------------------------------------------------------------------------
(* The shape of a result *)

(* C16: every result of ValidateForm and of ValidateFieldValue is valid    *)
(* exactly when its error list is empty.                                   *)
C16_ValidIffNoErrors ==
    IsValidation => (result.valid <=> Len(result.errors) = 0)

C16_Witness ==
    /\ IsValidateFieldValue
    /\ call.field.type = "Phone"
    /\ call.value.t = "map"
    /\ result.valid
    /\ result.errors = <<>>

----------------------------------------------------------------------------
(* What an error carries *)

(* The identifier of each kind of rule in an error *)
KindName ==
    [Required |-> "required", Email |-> "email", MinLength |-> "minlength",
     MaxLength |-> "maxlength", Min |-> "min", Max |-> "max", Pattern |-> "pattern",
     Custom |-> "custom"]

(* C17: every error of ValidateForm carries the configured message of a    *)
(* rule of the field or column it addresses, verbatim, together with that  *)
(* rule's kind in lowercase (required, email, minlength, maxlength, min,   *)
(* max, pattern, custom); no error carries any other message or kind.      *)
C17_ErrorCarriesRule ==
    IsValidateForm =>
        \A j \in DOMAIN result.errors :
            LET e == result.errors[j]
                rules == RulesAt(LocationOf(e))
            IN  \E k \in DOMAIN rules :
                    /\ e.message = rules[k].message
                    /\ e.rule = KindName[rules[k].type]

C17_Witness ==
    /\ IsValidateForm
    /\ call.config.fields = <<nameField, totalsField>>
    /\ Len(result.errors) > 2
    /\ result.errors[1] = [field |-> <<"name">>, message |-> "Too short", rule |-> "minlength"]
    /\ result.errors[Len(result.errors)] =
          [field |-> <<"totals", ".", "r1", ".", "b">>, message |-> "Must start with a",
           rule |-> "pattern"]

----------------------------------------------------------------------------
(* Length and range rules *)

(* The call validated a plain field with the one rule of the given type,   *)
(* unconditional, on a value that is not empty.                            *)
OneRuleOn(type) ==
    /\ SingleFieldOf(PlainTypes)
    /\ ~TheField.validations.isNull
    /\ Len(TheField.validations.list) = 1
    /\ TheField.validations.list[1].type = type
    /\ TheField.validations.list[1].condition.isNull
    /\ ~Empty(TheValue)

TheRule == TheField.validations.list[1]

(* C18: on a string that is not empty a minLength rule with an integer     *)
(* bound n passes exactly when the string has at least n characters, and a *)
(* maxLength rule exactly when it has at most n.                           *)
C18_LengthRules ==
    /\ (OneRuleOn("MinLength") /\ TheValue.t = "str" /\ TheRule.value.t = "num")
        => (result.valid <=> Len(TheValue.v) >= TheRule.value.v)
    /\ (OneRuleOn("MaxLength") /\ TheValue.t = "str" /\ TheRule.value.t = "num")
        => (result.valid <=> Len(TheValue.v) <= TheRule.value.v)

C18_Witness ==
    /\ OneRuleOn("MinLength")
    /\ TheValue = Json(Str(<<"a", "b">>))
    /\ TheRule.value = Num(2)
    /\ result = Success


(* A value that stands for a number: a number, or a string that parses as  *)
(* one; and the number it stands for.                                      *)
Coerces(v) == v.t = "num" \/ (v.t = "str" /\ IsNumeric(v.v))
NumberOf(v) == IF v.t = "num" THEN v.v ELSE ParseNumber(v.v)

(* C19: on a value that is not empty a min rule passes exactly when the    *)
(* value is at least the bound, provided both coerce to numbers (a string  *)
(* that parses as a number does); when either does not coerce the rule     *)
(* passes.  Dually a max rule, with at most.                               *)
C19_RangeRules ==
    /\ OneRuleOn("Min") =>
        IF Coerces(TheValue) /\ Coerces(TheRule.value)
        THEN result.valid <=> NumberOf(TheValue) >= NumberOf(TheRule.value)
        ELSE result = Success
    /\ OneRuleOn("Max") =>
        IF Coerces(TheValue) /\ Coerces(TheRule.value)
        THEN result.valid <=> NumberOf(TheValue) <= NumberOf(TheRule.value)
        ELSE result = Success

C19_Witness ==
    /\ OneRuleOn("Min")
    /\ TheValue = Json(Num(2))
    /\ TheRule.value = Str(<<"3">>)
    /\ result = Failure(<<ErrorOf(<<"code">>, TheRule)>>)

----------------------------------------------------------------------------
(* Pattern rules *)

(* The pattern source is missing, or is no regular expression *)
NoUsablePattern(rule) ==
    \/ rule.value.t = "null"
    \/ rule.value.t = "str" /\ ~RegexCompiles(rule.value.v)

(* C20: a pattern rule whose pattern source is missing or does not compile *)
(* as a regular expression passes for every value: it never adds an error  *)
(* and ValidateForm returns its result as with the rule left out.          *)
C20_BadPatternPasses ==
    IsValidateForm =>
        /\ \A f \in CallFields : \A rule \in AllRulesOf(f) :
            (rule.type = "Pattern" /\ NoUsablePattern(rule))
            => \A j \in DOMAIN result.errors :
                    ~(result.errors[j].rule = "pattern"
                      /\ result.errors[j].message = rule.message)
        /\ (/\ Len(call.config.fields) = 1
            /\ ~TheField.validations.isNull
            /\ \A rule \in RulesOf(TheField.validations) :
                    rule.type = "Pattern" /\ NoUsablePattern(rule))
            => result = Success

C20_Witness ==
    /\ SingleFieldOf(PlainTypes)
    /\ TheField.validations = Validations(<<rBadPattern>>)
    /\ TheValue = Str(<<"a">>)
    /\ result = Success

----------------------------------------------------------------------------
(* The synchronous .NET registry used by two threads.  One thread mutates  *)
(* the registry, the other looks validators up.  ValidatorRegistry takes   *)
(* no lock and _validators is a Dictionary, which allows no reader while   *)
(* it is written: a reader that runs inside a write gets the table before  *)
(* the write, the table after it, or a torn outcome (a key that is there   *)
(* not found, or an exception).  RegisterAll is a loop of Register calls,  *)
(* so its writes land one at a time.  A lookup is one step of the reading  *)
(* thread; the mutating thread moves while the reader is between calls,    *)
(* which gives every order of the lookups and the steps of the mutation.   *)

Threw == [threw |-> TRUE]

RECURSIVE RegisterAllWrites(_, _, _)
RegisterAllWrites(table, entries, names) ==
    IF names = << >> THEN << >>
    ELSE LET written == SetItem(table, Head(names), entries[Head(names)])
         IN  <<written>> \o RegisterAllWrites(written, entries, Tail(names))

(* The mutating thread enters an operation whose writes are still to come *)
Mutation(op, writes) ==
    [inProgress |-> TRUE, op |-> op, before |-> validators,
     after |-> IF writes = << >> THEN validators ELSE writes[Len(writes)],
     writes |-> writes, writing |-> FALSE, landed |-> FALSE]

elsewhereMutation ==
    <<asyncValidators, sharedValidatorMap, sharedAsyncValidatorMap, serviceValidators,
      packageAsyncValidators>>

BeginMutation(op, writes) ==
    /\ call = Idle
    /\ ~mutation.inProgress
    /\ mutation' = Mutation(op, writes)
    /\ UNCHANGED <<validators, call, result, elsewhereMutation>>

BeginRegister(name, validator) ==
    BeginMutation("Register", <<SetItem(validators, name, validator)>>)

BeginRegisterAll(entries) ==
    BeginMutation("RegisterAll", RegisterAllWrites(validators, entries, Keys(entries)))

BeginUnregister(name) == BeginMutation("Unregister", <<Remove(validators, name)>>)

BeginClear == BeginMutation("Clear", <<EmptyMap>>)

(* The mutating thread is inside _validators[name] = ..., Remove or Clear *)
EnterWrite ==
    /\ call = Idle
    /\ mutation.inProgress /\ ~mutation.writing /\ mutation.writes # << >>
    /\ mutation' = [mutation EXCEPT !.writing = TRUE, !.landed = FALSE]
    /\ UNCHANGED <<validators, call, result, elsewhereMutation>>

(* The write becomes what readers of the table find *)
LandWrite ==
    /\ call = Idle
    /\ mutation.inProgress /\ mutation.writing /\ ~mutation.landed
    /\ validators' = Head(mutation.writes)
    /\ mutation' = [mutation EXCEPT !.landed = TRUE]
    /\ UNCHANGED <<call, result, elsewhereMutation>>

(* The write returns *)
LeaveWrite ==
    /\ call = Idle
    /\ mutation.inProgress /\ mutation.writing /\ mutation.landed
    /\ mutation' = [mutation EXCEPT !.writing = FALSE, !.landed = FALSE,
                                    !.writes = Tail(mutation.writes)]
    /\ UNCHANGED <<validators, call, result, elsewhereMutation>>

(* The operation of the mutating thread returns *)
EndMutation ==
    /\ call = Idle
    /\ mutation.inProgress /\ ~mutation.writing /\ mutation.writes = << >>
    /\ mutation' = NoMutation
    /\ UNCHANGED <<validators, call, result, elsewhereMutation>>

(* What a reader can get: what the table holds, or inside a write also a   *)
(* torn outcome.                                                           *)
Observed(whole, torn) == IF mutation.inProgress /\ mutation.writing THEN {whole} \cup torn ELSE {whole}

(* The tables before and after the mutation a lookup runs in *)
During ==
    IF mutation.inProgress
    THEN [inProgress |-> TRUE, before |-> mutation.before, after |-> mutation.after]
    ELSE [inProgress |-> FALSE, before |-> validators, after |-> validators]

ConcurrentGet(name) ==
    /\ call = Idle
    /\ call' = [op |-> "Get", name |-> name, during |-> During]
    /\ result' \in Observed(Lookup(validators, name), {[isNull |-> TRUE, fn |-> ""], Threw})
    /\ UNCHANGED <<validators, elsewhere>>

ConcurrentHas(name) ==
    /\ call = Idle
    /\ call' = [op |-> "Has", name |-> name, during |-> During]
    /\ result' \in Observed([has |-> Has(validators, name)], {[has |-> FALSE], Threw})
    /\ UNCHANGED <<validators, elsewhere>>

ConcurrentList ==
    /\ call = Idle
    /\ call' = [op |-> "List", during |-> During]
    /\ result' \in Observed([names |-> Keys(validators)], {Threw})
    /\ UNCHANGED <<validators, elsewhere>>

ConcurrentValidateForm(config, data) ==
    /\ call = Idle
    /\ call' = [op |-> "ValidateForm", config |-> config, data |-> data, during |-> During]
    /\ result' \in Observed(ValidateForm(config, data), {Threw})
    /\ UNCHANGED <<validators, elsewhere>>

ConcurrentNext ==
    \/ \E name \in ValidatorNames, validator \in ValidatorFns : BeginRegister(name, validator)
    \/ \E entries \in EntriesOver(ValidatorNames, ValidatorFns) : BeginRegisterAll(entries)
    \/ \E name \in ValidatorNames : BeginUnregister(name)
    \/ BeginClear
    \/ EnterWrite
    \/ LandWrite
    \/ LeaveWrite
    \/ EndMutation
    \/ \E name \in ValidatorNames : ConcurrentGet(name)
    \/ \E name \in ValidatorNames : ConcurrentHas(name)
    \/ ConcurrentList
    \/ \E i \in CustomForms : ConcurrentValidateForm(i.config, i.data)
    \/ Return

ConcurrentSpec == Init /\ [][ConcurrentNext]_vars

----------------------------------------------------------------------------
(* The asynchronous validation of the validation package: its registry of  *)
(* named asynchronous validators and validateFieldAsync.                   *)

(* asyncValidation: { validatorName, trigger, params } of a field *)
AsyncValidationConfig(validatorName, params) ==
    [validatorName |-> validatorName, trigger |-> "blur", params |-> params]

(* A field with an asynchronous binding *)
AsyncField(name, type, binding) == [name |-> name, type |-> type, asyncValidation |-> binding]

Resolved(r) == [settled |-> "resolved", value |-> r]
Rejected == [settled |-> "rejected", value |-> [valid |-> FALSE, message |-> "fetch failed"]]
NoMessage == "undefined"

(* The asynchronous validators an application registers: checkEmailExists  *)
(* asks a service whether the address is taken, checkUsernameUnique asks   *)
(* one that cannot be reached.                                             *)
AsyncValidatorFn(fn, value, params, fieldConfig, formData) ==
    CASE fn = "checkEmailExists" ->
            IF value = Str(sEmail)
            THEN Resolved([valid |-> FALSE, message |-> "Email already exists"])
            ELSE Resolved([valid |-> TRUE, message |-> NoMessage])
      [] fn = "checkUsernameUnique" -> Rejected

PackageValidatorNames == {"checkEmailExists", "checkUsernameUnique"}

(* get handing out the first validator it has for a name it has not *)
AsyncGet_AnyRegistered(name) ==
    IF name \in DOMAIN packageAsyncValidators \/ packageAsyncValidators = EmptyMap
    THEN Lookup(packageAsyncValidators, name)
    ELSE Lookup(packageAsyncValidators, CHOOSE k \in DOMAIN packageAsyncValidators : TRUE)

(* asyncValidatorRegistry.get(name) *)
AsyncGet(name) == Lookup(packageAsyncValidators, name)

(* validateFieldAsync(fieldConfig, value, formData) *)
validateFieldAsync(fieldConfig, value, formData) ==
    LET validator == AsyncGet(fieldConfig.asyncValidation.validatorName)
    IN  IF validator.isNull
        THEN Resolved([valid |-> TRUE, message |-> NoMessage])
        ELSE AsyncValidatorFn(validator.fn, value, fieldConfig.asyncValidation.params,
                              fieldConfig, formData)

elsewherePackage ==
    <<validators, asyncValidators, sharedValidatorMap, sharedAsyncValidatorMap,
      serviceValidators, mutation>>

PackageAsyncRegister(name, validator) ==
    /\ call = Idle
    /\ packageAsyncValidators' = SetItem(packageAsyncValidators, name, validator)
    /\ call' = [op |-> "asyncValidatorRegistry.register", name |-> name, validator |-> validator,
                overwritten |-> name \in DOMAIN packageAsyncValidators]
    /\ result' = NoResult
    /\ UNCHANGED elsewherePackage

PackageAsyncUnregister(name) ==
    /\ call = Idle
    /\ packageAsyncValidators' = Remove(packageAsyncValidators, name)
    /\ call' = [op |-> "asyncValidatorRegistry.unregister", name |-> name]
    /\ result' = [removed |-> name \in DOMAIN packageAsyncValidators]
    /\ UNCHANGED elsewherePackage

PackageAsyncClear ==
    /\ call = Idle
    /\ packageAsyncValidators' = EmptyMap
    /\ call' = [op |-> "asyncValidatorRegistry.clear"]
    /\ result' = NoResult
    /\ UNCHANGED elsewherePackage

DoValidateFieldAsync(fieldConfig, value, formData) ==
    /\ call = Idle
    /\ call' = [op |-> "validateFieldAsync", field |-> fieldConfig, value |-> value,
                formData |-> formData]
    /\ result' = validateFieldAsync(fieldConfig, value, formData)
    /\ UNCHANGED <<packageAsyncValidators, elsewherePackage>>

AsyncFields ==
    {AsyncField("email", "Email", AsyncValidationConfig(n, p)) :
        n \in PackageValidatorNames, p \in {EmptyMap, [k \in {"minLength"} |-> Num(2)]}}

AsyncValues == {Null, Str(<<>>), Str(sEmail), Str(<<"a", "b">>)}

AsyncFormData == {EmptyMap, [k \in {"email"} |-> Str(sEmail)]}

AsyncNext ==
    \/ \E name \in PackageValidatorNames, validator \in PackageValidatorNames :
            PackageAsyncRegister(name, validator)
    \/ \E name \in PackageValidatorNames : PackageAsyncUnregister(name)
    \/ PackageAsyncClear
    \/ \E f \in AsyncFields, v \in AsyncValues, d \in AsyncFormData : DoValidateFieldAsync(f, v, d)
    \/ Return

AsyncSpec == Init /\ [][AsyncNext]_vars

----------------------------------------------------------------------------
(* ConfigLoader.ValidateConfig: the structural validation of a form        *)
(* configuration.  Names, labels, ids and titles are strings, "" standing  *)
(* for a null or empty one; a path is the sequence of its parts, an index  *)
(* counting from 0 and written in digits.                                  *)

ValidFieldTypes ==
    {"text", "email", "number", "textarea", "select", "checkbox", "radio",
     "date", "daterange", "table", "info", "datagrid", "phone", "formref"}

ValidValidationTypes ==
    {"required", "email", "minLength", "maxLength", "min", "max", "pattern", "custom"}

(* field.Type.ToString().ToLowerInvariant() *)
FieldTypeToLowerInvariant(type) ==
    CASE type = "Text" -> "text"
      [] type = "Email" -> "email"
      [] type = "Number" -> "number"
      [] type = "Table" -> "table"
      [] type = "DataGrid" -> "datagrid"
      [] type = "Phone" -> "phone"

(* The position i of a list as the index the path shows *)
Index(i) == ToString(i - 1)

ConfigValidationError(path, message) == [path |-> path, message |-> message]

ConfigValidationResult_Success(config) ==
    [valid |-> TRUE, errors |-> << >>, config |-> [isNull |-> FALSE, value |-> config]]

ConfigValidationResult_Failure(errors) ==
    [valid |-> FALSE, errors |-> errors, config |-> [isNull |-> TRUE, value |-> << >>]]

(* The configuration as ConfigLoader reads it *)
FormSection(id, title) == [id |-> id, title |-> title]

LoaderColumn(name, label, validations) ==
    [name |-> name, label |-> label, validations |-> validations]

LoaderTableConfig(columns, rowMode) ==
    [isNull |-> FALSE, columns |-> columns, rowMode |-> rowMode]

LoaderDataGridConfig(columns, rowLabels) ==
    [isNull |-> FALSE, columns |-> columns, rowLabels |-> rowLabels]

LoaderField(name, label, type, sectionId, validations) ==
    [name |-> name, label |-> label, type |-> type, sectionId |-> sectionId,
     validations |-> validations, tableConfig |-> NoTableConfig,
     dataGridConfig |-> NoDataGridConfig]

LoaderConfig(id, fields, sections) == [id |-> id, fields |-> fields, sections |-> sections]

IsNullOrEmptyName(s) == s = ""
IsNullOrWhiteSpaceName(s) == s \in {"", " "}

(* A list of errors for each index of a list, one after another *)
RECURSIVE Concat(_)
Concat(lists) == IF lists = << >> THEN << >> ELSE Head(lists) \o Concat(Tail(lists))

ErrorIf(cond, path, message) ==
    IF cond THEN <<ConfigValidationError(path, message)>> ELSE << >>

ValidateValidationRule(rule, path) ==
    LET ruleType == ToLowerInvariant(rule.type)
    IN  ErrorIf(ruleType \notin ValidValidationTypes, path \o <<"type">>,
                <<"Invalid validation type", ruleType>>)
        \o ErrorIf(rule.message = "", path \o <<"message">>,
                   <<"Validation rule message is required">>)
        \o ErrorIf(rule.type \in {"MinLength", "MaxLength", "Min", "Max"} /\ rule.value = Null,
                   path \o <<"value">>, <<"Validation type requires a value", ruleType>>)
        \o ErrorIf(rule.type = "Pattern" /\ rule.value = Null, path \o <<"value">>,
                   <<"Pattern validation requires a regex value">>)
        \o ErrorIf(rule.type = "Custom" /\ rule.customValidatorName = "",
                   path \o <<"customValidatorName">>,
                   <<"Custom validation requires customValidatorName">>)

ValidateValidations(validations, path) ==
    IF validations.isNull THEN << >>
    ELSE Concat([j \in DOMAIN validations.list |->
                    ValidateValidationRule(validations.list[j],
                                           path \o <<"validations", Index(j)>>)])

ValidateColumns(columns, path) ==
    Concat([i \in DOMAIN columns |->
        ErrorIf(IsNullOrEmptyName(columns[i].name), path \o <<"columns", Index(i), "name">>,
                <<"Column name is required">>)
        \o ErrorIf(IsNullOrEmptyName(columns[i].label), path \o <<"columns", Index(i), "label">>,
                   <<"Column label is required">>)
        \o ValidateValidations(columns[i].validations, path \o <<"columns", Index(i)>>)])

ValidateTableConfig(config, path) ==
    (IF config.columns = << >>
     THEN <<ConfigValidationError(path \o <<"columns">>, <<"Table must have at least one column">>)>>
     ELSE ValidateColumns(config.columns, path))
    \o ErrorIf(config.rowMode \notin {"fixed", "dynamic"}, path \o <<"rowMode">>,
               <<"Table rowMode must be fixed or dynamic">>)

ValidateDataGridConfig(config, path) ==
    (IF config.columns = << >>
     THEN <<ConfigValidationError(path \o <<"columns">>,
                                  <<"DataGrid must have at least one column">>)>>
     ELSE ValidateColumns(config.columns, path))
    \o (IF config.rowLabels = << >>
        THEN <<ConfigValidationError(path \o <<"rowLabels">>,
                                     <<"DataGrid must have at least one row label">>)>>
        ELSE Concat([i \in DOMAIN config.rowLabels |->
                ErrorIf(IsNullOrEmptyName(config.rowLabels[i].id),
                        path \o <<"rowLabels", Index(i), "id">>, <<"Row label id is required">>)
                \o ErrorIf(IsNullOrEmptyName(config.rowLabels[i].label),
                           path \o <<"rowLabels", Index(i), "label">>, <<"Row label is required">>)]))

ValidateFieldConfig(field, index, basePath) ==
    LET fieldPath == <<basePath, index>>
        fieldType == FieldTypeToLowerInvariant(field.type)
    IN  ErrorIf(IsNullOrWhiteSpaceName(field.name), fieldPath \o <<"name">>,
                <<"Field name is required">>)
        \o ErrorIf(IsNullOrWhiteSpaceName(field.label), fieldPath \o <<"label">>,
                   <<"Field label is required">>)
        \o ErrorIf(fieldType \notin ValidFieldTypes, fieldPath \o <<"type">>,
                   <<"Invalid field type", fieldType>>)
        \o (IF field.type # "Table" THEN << >>
            ELSE IF field.tableConfig.isNull
            THEN <<ConfigValidationError(fieldPath \o <<"tableConfig">>,
                                         <<"Table field requires tableConfig">>)>>
            ELSE ValidateTableConfig(field.tableConfig, fieldPath \o <<"tableConfig">>))
        \o (IF field.type # "DataGrid" THEN << >>
            ELSE IF field.dataGridConfig.isNull
            THEN <<ConfigValidationError(fieldPath \o <<"datagridConfig">>,
                                         <<"DataGrid field requires datagridConfig">>)>>
            ELSE ValidateDataGridConfig(field.dataGridConfig, fieldPath \o <<"datagridConfig">>))
        \o ValidateValidations(field.validations, fieldPath)

(* The section ids the loop over config.Sections has collected *)
SectionIds(sections) == {sections[i].id : i \in DOMAIN sections} \ {""}

ValidateConfig(config) ==
    LET fields == config.fields
        sections == config.sections
        fieldErrors ==
            IF fields = << >>
            THEN <<ConfigValidationError(<<"fields">>, <<"Fields must be a non-empty array">>)>>
            ELSE Concat([i \in DOMAIN fields |->
                    ValidateFieldConfig(fields[i], Index(i), "fields")
                    \o ErrorIf(/\ ~IsNullOrEmptyName(fields[i].name)
                               /\ \E k \in 1..(i - 1) : fields[k].name = fields[i].name,
                               <<"fields", Index(i), "name">>,
                               <<"Duplicate field name", fields[i].name>>)])
        sectionErrors ==
            IF sections = << >> THEN << >>
            ELSE Concat([i \in DOMAIN sections |->
                    (IF IsNullOrEmptyName(sections[i].id)
                     THEN <<ConfigValidationError(<<"sections", Index(i), "id">>,
                                                  <<"Section id is required">>)>>
                     ELSE ErrorIf(\E k \in 1..(i - 1) : sections[k].id = sections[i].id,
                                  <<"sections", Index(i), "id">>,
                                  <<"Duplicate section id", sections[i].id>>))
                    \o ErrorIf(IsNullOrEmptyName(sections[i].title),
                               <<"sections", Index(i), "title">>, <<"Section title is required">>)])
                 \o Concat([i \in DOMAIN fields |->
                        ErrorIf(/\ ~IsNullOrEmptyName(fields[i].sectionId)
                                /\ fields[i].sectionId \notin SectionIds(sections),
                                <<"fields", Index(i), "sectionId">>,
                                <<"Field references non-existent section",
                                  fields[i].sectionId>>)])
        errors ==
            ErrorIf(IsNullOrWhiteSpaceName(config.id), <<"id">>, <<"Form id is required">>)
            \o fieldErrors \o sectionErrors
    IN  IF errors = << >>
        THEN ConfigValidationResult_Success(config)
        ELSE ConfigValidationResult_Failure(errors)

(* The configurations given to ValidateConfig *)
WellFormedRules ==
    {rRequired, rEmail, rMinLength, rMaxLength, rMin, rMax, rPattern, rCustom}

MalformedRules ==
    {Rule("Required", Null, ""), Rule("Min", Null, <<"Too small">>), rNoPattern, rCustomUnnamed}

LoaderValidationLists ==
    {NoValidations} \cup {Validations(<<r>>) : r \in WellFormedRules \cup MalformedRules}
    \cup {Validations(<<rRequired, rMinLength>>)}

LoaderSections ==
    {<< >>, <<FormSection("s1", <<"Section 1">>)>>,
     <<FormSection("s1", <<"Section 1">>), FormSection("s1", "")>>,
     <<FormSection("", <<"Untitled">>), FormSection("s2", <<"Section 2">>)>>}

tableField ==
    [LoaderField("lines", "Lines", "Table", "", NoValidations) EXCEPT
        !.tableConfig = LoaderTableConfig(<<LoaderColumn("qty", "", Validations(<<rMin>>))>>,
                                          "fixed")]

dataGridField ==
    [LoaderField("totals", "Totals", "DataGrid", "s1", NoValidations) EXCEPT
        !.dataGridConfig = LoaderDataGridConfig(<<LoaderColumn("q1", "Q1", NoValidations)>>,
                                                <<RowLabel("r1", "")>>)]

LoaderFields ==
    {LoaderField(n, "Label", "Text", s, v) :
        n \in {"a", "b"}, s \in {"", "s1", "s2"}, v \in LoaderValidationLists}
    \cup {LoaderField("", "", "Text", "", NoValidations),
          LoaderField("lines", "Lines", "Table", "", NoValidations),
          LoaderField("totals", "Totals", "DataGrid", "", NoValidations),
          tableField,
          [tableField EXCEPT !.tableConfig = LoaderTableConfig(<< >>, "")],
          dataGridField,
          [dataGridField EXCEPT !.dataGridConfig = LoaderDataGridConfig(<< >>, << >>)]}

SecondFields ==
    {LoaderField(n, "Label", "Text", s, NoValidations) : n \in {"a", "b"}, s \in {"", "s2"}}

LoaderConfigs ==
    {LoaderConfig(id, fs, ss) :
        id \in {"form", ""},
        fs \in {<< >>} \cup {<<f>> : f \in LoaderFields}
               \cup {<<f, g>> : f \in LoaderFields, g \in SecondFields},
        ss \in LoaderSections}

DoValidateConfig(config) ==
    /\ call = Idle
    /\ call' = [op |-> "ValidateConfig", config |-> config]
    /\ result' = ValidateConfig(config)
    /\ UNCHANGED <<validators, elsewhere>>

ConfigNext ==
    \/ \E config \in LoaderConfigs : DoValidateConfig(config)
    \/ Return

ConfigSpec == Init /\ [][ConfigNext]_vars

----------------------------------------------------------------------------
(* The registries of the Angular library.  url-schema.service.ts has a     *)
(* ValidatorRegistry and an AsyncValidatorRegistry whose instances, the    *)
(* exported globals and the injected ones, hold the module's shared maps;  *)
(* validator-registry.service.ts has a ValidatorRegistry whose instance    *)
(* holds a map of its own.                                                 *)

(* "global": validatorRegistry, "injected": the instance Angular injects,  *)
(* both of url-schema.service.ts; "service": the instance Angular injects  *)
(* of the class in validator-registry.service.ts.                          *)
SharedInstances == {"global", "injected"}
Instances == SharedInstances \cup {"service"}

(* this.validators of an instance *)
TableOf(instance) == IF instance = "service" THEN serviceValidators ELSE sharedValidatorMap

elsewhereAngular == <<validators, asyncValidators, packageAsyncValidators, mutation>>

(* The step leaves table as the map of the instance *)
Stores(instance, table) ==
    IF instance = "service"
    THEN serviceValidators' = table /\ UNCHANGED sharedValidatorMap
    ELSE sharedValidatorMap' = table /\ UNCHANGED serviceValidators

NgRegister(instance, name, validator) ==
    /\ call = Idle
    /\ Stores(instance, SetItem(TableOf(instance), name, validator))
    /\ call' = [op |-> "register", on |-> instance, name |-> name, validator |-> validator,
                overwritten |-> name \in DOMAIN TableOf(instance)]
    /\ result' = NoResult
    /\ UNCHANGED <<sharedAsyncValidatorMap, elsewhereAngular>>

NgRegisterAll(instance, entries) ==
    /\ call = Idle
    /\ Stores(instance, SetAll(TableOf(instance), entries))
    /\ call' = [op |-> "registerAll", on |-> instance, validators |-> entries]
    /\ result' = NoResult
    /\ UNCHANGED <<sharedAsyncValidatorMap, elsewhereAngular>>

NgUnregister(instance, name) ==
    /\ call = Idle
    /\ Stores(instance, Remove(TableOf(instance), name))
    /\ call' = [op |-> "unregister", on |-> instance, name |-> name]
    /\ result' = [removed |-> name \in DOMAIN TableOf(instance)]
    /\ UNCHANGED <<sharedAsyncValidatorMap, elsewhereAngular>>

NgClear(instance) ==
    /\ call = Idle
    /\ Stores(instance, EmptyMap)
    /\ call' = [op |-> "clear", on |-> instance]
    /\ result' = NoResult
    /\ UNCHANGED <<sharedAsyncValidatorMap, elsewhereAngular>>

(* get, has and list of an instance *)
NgRead(instance, name) ==
    /\ call = Idle
    /\ call' = [op |-> "get, has, list", on |-> instance, name |-> name]
    /\ result' = [get |-> Lookup(TableOf(instance), name),
                  has |-> Has(TableOf(instance), name),
                  list |-> Keys(TableOf(instance))]
    /\ UNCHANGED <<sharedValidatorMap, serviceValidators, sharedAsyncValidatorMap,
                   elsewhereAngular>>

(* The operations of AsyncValidatorRegistry, whose instances all hold      *)
(* sharedAsyncValidatorMap.                                                *)
NgAsyncRegister(instance, name, validator) ==
    /\ call = Idle
    /\ sharedAsyncValidatorMap' = SetItem(sharedAsyncValidatorMap, name, validator)
    /\ call' = [op |-> "async register", on |-> instance, name |-> name,
                validator |-> validator,
                overwritten |-> name \in DOMAIN sharedAsyncValidatorMap]
    /\ result' = NoResult
    /\ UNCHANGED <<sharedValidatorMap, serviceValidators, elsewhereAngular>>

NgAsyncRegisterAll(instance, entries) ==
    /\ call = Idle
    /\ sharedAsyncValidatorMap' = SetAll(sharedAsyncValidatorMap, entries)
    /\ call' = [op |-> "async registerAll", on |-> instance, validators |-> entries]
    /\ result' = NoResult
    /\ UNCHANGED <<sharedValidatorMap, serviceValidators, elsewhereAngular>>

NgAsyncUnregister(instance, name) ==
    /\ call = Idle
    /\ sharedAsyncValidatorMap' = Remove(sharedAsyncValidatorMap, name)
    /\ call' = [op |-> "async unregister", on |-> instance, name |-> name]
    /\ result' = [removed |-> name \in DOMAIN sharedAsyncValidatorMap]
    /\ UNCHANGED <<sharedValidatorMap, serviceValidators, elsewhereAngular>>

NgAsyncClear(instance) ==
    /\ call = Idle
    /\ sharedAsyncValidatorMap' = EmptyMap
    /\ call' = [op |-> "async clear", on |-> instance]
    /\ result' = NoResult
    /\ UNCHANGED <<sharedValidatorMap, serviceValidators, elsewhereAngular>>

NgAsyncRead(instance, name) ==
    /\ call = Idle
    /\ call' = [op |-> "async get, has, list", on |-> instance, name |-> name]
    /\ result' = [get |-> Lookup(sharedAsyncValidatorMap, name),
                  has |-> Has(sharedAsyncValidatorMap, name),
                  list |-> Keys(sharedAsyncValidatorMap)]
    /\ UNCHANGED <<sharedValidatorMap, serviceValidators, sharedAsyncValidatorMap,
                   elsewhereAngular>>

AngularNext ==
    \/ \E on \in Instances, name \in ValidatorNames, validator \in ValidatorFns :
            NgRegister(on, name, validator)
    \/ \E on \in Instances, entries \in EntriesOver(ValidatorNames, ValidatorFns) :
            NgRegisterAll(on, entries)
    \/ \E on \in Instances, name \in ValidatorNames : NgUnregister(on, name)
    \/ \E on \in Instances : NgClear(on)
    \/ \E on \in Instances, name \in ValidatorNames : NgRead(on, name)
    \/ \E on \in SharedInstances, name \in AsyncValidatorNames,
          validator \in AsyncValidatorFns : NgAsyncRegister(on, name, validator)
    \/ \E on \in SharedInstances, entries \in EntriesOver(AsyncValidatorNames, AsyncValidatorFns) :
            NgAsyncRegisterAll(on, entries)
    \/ \E on \in SharedInstances, name \in AsyncValidatorNames : NgAsyncUnregister(on, name)
    \/ \E on \in SharedInstances : NgAsyncClear(on)
    \/ \E on \in SharedInstances, name \in AsyncValidatorNames : NgAsyncRead(on, name)
    \/ Return

AngularSpec == Init /\ [][AngularNext]_vars

----------------------------------------------------------------------------
(* The registries *)

(* The step registered a validator in the table, with none overwritten     *)
(* that the step does not name.                                            *)
Registered(op, before, after, names) ==
    call'.op = op =>
        /\ Lookup(after, call'.name) = [isNull |-> FALSE, fn |-> call'.validator]
        /\ Has(after, call'.name)
        /\ \A other \in names \ {call'.name} : Lookup(after, other) = Lookup(before, other)

(* C21: in each registry, after register(name, fn) the lookup get(name)    *)
(* returns fn and has(name) is true; a name already present gets the new   *)
(* function (the last registration wins) and the entry of every other name *)
(* is as before.                                                           *)
C21_RegisterThenGet ==
    [][/\ Registered("Register", validators, validators', ValidatorNames)
       /\ Registered("AsyncRegister", asyncValidators, asyncValidators', AsyncValidatorNames)]_vars

C21_Witness ==
    /\ call.op = "Register"
    /\ call.overwritten
    /\ call.name = "validator1"
    /\ call.validator = "australianPhoneNumber"
    /\ Lookup(validators, "validator1").fn = "australianPhoneNumber"
    /\ Lookup(validators, "australianPhoneNumber").fn = "validator1"

(* The step removed a name from the table, and said whether it was there *)
Unregistered(op, before, after, names) ==
    call'.op = op =>
        /\ result'.removed = Has(before, call'.name)
        /\ ~Has(after, call'.name)
        /\ Lookup(after, call'.name).isNull
        /\ \A other \in names \ {call'.name} : Lookup(after, other) = Lookup(before, other)

(* The step emptied the table *)
Cleared(op, after, names) ==
    call'.op = op =>
        /\ Keys(after) = << >>
        /\ \A name \in names : ~Has(after, name)

(* C22: in each registry, unregister(name) returns true iff name was       *)
(* registered just before the call, afterwards has(name) is false and the  *)
(* entries of all other names are as before; clear() removes every name,   *)
(* so that list() is empty afterwards.                                     *)
C22_UnregisterAndClear ==
    [][/\ Unregistered("Unregister", validators, validators', ValidatorNames)
       /\ Unregistered("AsyncUnregister", asyncValidators, asyncValidators', AsyncValidatorNames)
       /\ Cleared("Clear", validators', ValidatorNames)
       /\ Cleared("AsyncClear", asyncValidators', AsyncValidatorNames)]_vars

C22_Witness ==
    /\ call.op = "Unregister"
    /\ call.name = "validator1"
    /\ result.removed
    /\ ~Has(validators, "validator1")
    /\ Lookup(validators, "australianPhoneNumber").fn = "validator1"

(* C23: a lookup that runs while another thread mutates the registry    *)
(* returns what the table held before the mutation or what it holds after  *)
(* it, never something in between, and a ValidateForm call that looks a    *)
(* custom validator up meanwhile comes back with a result.                 *)
C23_LookupSeesWholeTable ==
    /\ call.op = "Get" =>
          result \in {Lookup(call.during.before, call.name), Lookup(call.during.after, call.name)}
    /\ call.op = "Has" =>
          result \in {[has |-> Has(call.during.before, call.name)],
                      [has |-> Has(call.during.after, call.name)]}
    /\ call.op = "List" =>
          result \in {[names |-> Keys(call.during.before)], [names |-> Keys(call.during.after)]}
    /\ call.op = "ValidateForm" => result # Threw

(* What the validation the caller is in returns when it is run again *)
Revalidated ==
    CASE call.op = "ValidateForm" -> ValidateForm(call.config, call.data)
      [] call.op = "ValidateFieldValue" ->
            ValidateFieldValue(call.field, call.value,
                               IF call.formData.isNull THEN EmptyMap ELSE call.formData.dict)
      [] OTHER -> result

C25_RegistriesIndependent ==
    [][/\ asyncValidators' # asyncValidators =>
              /\ validators' = validators
              /\ \A i \in CustomForms :
                    ValidateForm(i.config, i.data)' = ValidateForm(i.config, i.data)
       /\ validators' # validators => asyncValidators' = asyncValidators]_vars

C25_Witness ==
    /\ call.op = "ValidateForm"
    /\ Has(asyncValidators, "validator1")
    /\ ~Has(validators, "validator1")
    /\ call.config.fields[1].validations = Validations(<<rCustom2>>)
    /\ \E k \in DOMAIN call.data : call.data[k] # Null /\ ~IsEmpty(call.data[k])
    /\ result.valid

(* C26: validateFieldAsync on a field whose binding names a validator    *)
(* that is not in the asynchronous registry resolves to a valid result and *)
(* does not reject; when the validator is registered, what it settles to   *)
(* is returned as it is.                                                   *)
C26_AbsentAsyncValidatorIsValid ==
    call.op = "validateFieldAsync" =>
        LET binding == call.field.asyncValidation
        IN  IF ~Has(packageAsyncValidators, binding.validatorName)
            THEN result.settled = "resolved" /\ result.value.valid
            ELSE result = AsyncValidatorFn(packageAsyncValidators[binding.validatorName],
                                           call.value, binding.params, call.field,
                                           call.formData)

C26_Witness ==
    /\ call.op = "validateFieldAsync"
    /\ call.field.asyncValidation.validatorName = "checkEmailExists"
    /\ call.value = Str(sEmail)
    /\ ~Has(packageAsyncValidators, "checkEmailExists")
    /\ packageAsyncValidators = [k \in {"checkUsernameUnique"} |-> "checkEmailExists"]
    /\ result = Resolved([valid |-> TRUE, message |-> NoMessage])

(* The names list() returns *)
Listed(table) == {Keys(table)[k] : k \in DOMAIN Keys(table)}

(* has, get and list of a table agree, and list repeats no name *)
ReadsAgree(table, names) ==
    /\ \A name \in names :
          /\ Has(table, name) <=> ~Lookup(table, name).isNull
          /\ Has(table, name) <=> name \in Listed(table)
    /\ Cardinality(Listed(table)) = Len(Keys(table))

(* The names a step leaves listed, given those listed before it *)
ListedAfter(listed, prefix) ==
    CASE call'.op = prefix \o "Register" -> listed \cup {call'.name}
      [] call'.op = prefix \o "RegisterAll" -> listed \cup DOMAIN call'.validators
      [] call'.op = prefix \o "Unregister" -> listed \ {call'.name}
      [] call'.op = prefix \o "Clear" -> {}
      [] OTHER -> listed

(* C30: after any sequence of register, registerAll, unregister and clear  *)
(* on a registry its reads agree: has(name) is true iff get(name) returns  *)
(* a function iff name is in list(), list() has no name twice, and the     *)
(* listed names are those registered and not unregistered or cleared since. *)
C30_ReadsAgree ==
    /\ [](/\ ReadsAgree(validators, ValidatorNames)
          /\ ReadsAgree(asyncValidators, AsyncValidatorNames))
    /\ [][/\ Listed(validators') = ListedAfter(Listed(validators), "")
          /\ Listed(asyncValidators') = ListedAfter(Listed(asyncValidators), "Async")]_vars

C30_Witness ==
    /\ call.op = "Unregister"
    /\ result.removed
    /\ Keys(validators) = <<"validator1">>
    /\ Keys(asyncValidators) = <<"validator1", "checkEmailExists">>

----------------------------------------------------------------------------
(* The structural validation of a configuration *)

ConfigErrorAt(path) == \E k \in DOMAIN result.errors : result.errors[k].path = path

DeclaredSectionIds(config) == {config.sections[i].id : i \in DOMAIN config.sections}

(* C27: ValidateConfig reports an error for every field whose name is that *)
(* of an earlier field, and for every field whose non-empty sectionId is   *)
(* not the id of a declared section, a configuration that declares no      *)
(* sections included.                                                      *)
C27_ConfigInvariantsEnforced ==
    call.op = "ValidateConfig" =>
        \A i \in DOMAIN call.config.fields :
            LET field == call.config.fields[i]
            IN  /\ (/\ field.name # ""
                    /\ \E k \in 1..(i - 1) : call.config.fields[k].name = field.name)
                        => ConfigErrorAt(<<"fields", Index(i), "name">>)
                /\ (/\ field.sectionId # ""
                    /\ field.sectionId \notin DeclaredSectionIds(call.config))
                        => ConfigErrorAt(<<"fields", Index(i), "sectionId">>)

(* A rule with what its kind needs: a message, a value for the length,  *)
(* range and pattern kinds, a validator name for the custom kind.          *)
WellFormedRule(rule) ==
    /\ rule.message # ""
    /\ rule.type \in {"MinLength", "MaxLength", "Min", "Max", "Pattern"} => rule.value # Null
    /\ rule.type = "Custom" => rule.customValidatorName # ""

IsPrefix(p, q) == Len(p) <= Len(q) /\ SubSeq(q, 1, Len(p)) = p

ConfigErrorUnder(path) ==
    \E k \in DOMAIN result.errors : IsPrefix(path, result.errors[k].path)

(* C28: ValidateConfig accepts every rule kind the engine supports.  A     *)
(* rule of any of the eight kinds that has a message, a value where its    *)
(* kind needs one and a validator name if it is custom yields no           *)
(* structural error, "Invalid validation type" included.                   *)
C28_SupportedRuleKindsAccepted ==
    call.op = "ValidateConfig" =>
        \A i \in DOMAIN call.config.fields :
            \A j \in DOMAIN call.config.fields[i].validations.list :
                WellFormedRule(call.config.fields[i].validations.list[j])
                    => ~ConfigErrorUnder(<<"fields", Index(i), "validations", Index(j)>>)

----------------------------------------------------------------------------
(* The registries of the Angular library *)

(* C29: every ValidatorRegistry instance of the Angular library, injected  *)
(* or the exported global, works on one shared table: get, has and list    *)
(* give the same answers on every instance, so that a validator registered *)
(* on the global is there for an injected instance and one removed on an   *)
(* instance is gone for all.                                               *)
C29_InstancesShareOneTable ==
    \A a, b \in Instances :
        /\ Keys(TableOf(a)) = Keys(TableOf(b))
        /\ \A name \in ValidatorNames :
              /\ Lookup(TableOf(a), name) = Lookup(TableOf(b), name)
              /\ Has(TableOf(a), name) = Has(TableOf(b), name)

====
